---------------------------- MODULE Spec2Model ----------------------------
(* A model of the document-to-verdict pipeline of cmca-publication-audit.   *)
(*                                                                          *)
(* Spec      the adjudication stage, run_llm_verification_from_json         *)
(*           (src/src/backend/app/services/llm_service.py)                  *)
(*                                                                          *)
(* SpecSent  the sentence indexer, iter_page_sentences driven by            *)
(*           run_extract.sentence_gen (src/src/extraction/sentences.py,     *)
(*           src/src/extraction/cli.py)                                     *)
(*                                                                          *)
(* SpecAbbr  the sentence indexer over pages built around each entry of     *)
(*           the abbreviation list, in several casings                      *)
(*                                                                          *)
(* SpecHash  the sentence indexer over pages whose texts differ in case,    *)
(*           whitespace and compatibility forms                             *)
(*                                                                          *)
(* SpecDB    the vector store, VectorDB (src/pgvector_db.py)                *)
(*                                                                          *)
(* SpecHl    the annotation stage, highlight_answer_yes_sentences_from_     *)
(*           bytes (src/src/backend/app/services/highlight_service.py)      *)
(*                                                                          *)
(* SpecIngest  PdfService.ingest and PdfRepo.create                         *)
(*           (src/src/backend/app/services/pdf_service.py)                  *)
(*                                                                          *)
(* SpecCols  the reading order of a page's blocks                           *)
(*           (src/src/extraction/extract_sangram.py,                        *)
(*           src/src/extraction/extract_text_and_metadata.py)               *)
(*                                                                          *)
(* SpecConc  two writers and a reader of the vector store, each on a        *)
(*           connection of its own (src/pgvector_db.py)                     *)
(*                                                                          *)
(* SpecHead  heading detection (src/src/extraction/layout.py)               *)
(*                                                                          *)
(* SpecIndex the sentence index (src/src/extraction/sqlite_index.py)        *)
(*                                                                          *)
(* Similarity scores are integers counting 1e-5, so 0.70 is 70000 and       *)
(* round(x, 4) is rounding to a multiple of 10. A model answer is a         *)
(* sequence of tokens; "in" and startswith() are computed on the tokens.    *)
EXTENDS Integers, Sequences, FiniteSets, TLC

VARIABLES
    \* ---- adjudication stage -------------------------------------------
    raw_sentences,   \* extractor_json["sentences"]: records id, page, text
    sim,             \* what the reference collection answers per query text
    top_k,           \* parameter top_k
    threshold,       \* parameter threshold
    pc,              \* position of the run in the function
    top_queries,     \* ranked_queries[:top_k]
    ranked_queries,  \* the sorted candidates
    qi,              \* 1-based position of the for loop in top_queries
    llm_responses,   \* the records appended so far
    max_score,       \* running maximum
    any_yes,         \* running disjunction
    calls,           \* every chat.completions.create call made, in order,
                     \* with how it ended
    error,           \* the exception that left the function, or "none"
    result,          \* <<>> until the function returns, then <<dict>>
    \* ---- sentence indexer ---------------------------------------------
    doc,             \* the pages of the PDF: blocks of lines of spans
    pno,             \* the page sentence_gen is at, 0-based
    global_cursor,   \* the document-wide cursor of sentence_gen
    recs,            \* records of the current page not yet yielded
    written,         \* the records yielded so far, in order
    spc,             \* position of sentence_gen
    \* ---- vector store (src/pgvector_db.py) ----------------------------
    db_exists,       \* whether the collection's table exists
    db_rows,         \* the rows of the table, in heap order
    last_add,        \* per id, the fields of the last add that named it
    db_out,          \* how the last VectorDB call ended and what it gave
    \* ---- annotation stage (highlight_service.py) ----------------------
    pdf_bytes,       \* parameter pdf_bytes: the PDF the bytes encode
    sentences,       \* parameter sentences
    llm_outputs,     \* parameter llm_outputs
    hpc,             \* position of the run in the function
    yes_ids,         \* the ids filtered for 'Answer: Yes'
    hk,              \* 1-based position of the for loop in yes_ids
    hdoc,            \* the opened document: its highlight annotations
    hret,            \* <<>> until the function returns, then <<bytes>>
    \* ---- ingestion (pdf_service.py, pdf_repo.py) ----------------------
    ing_pc,          \* position of PdfService.ingest
    ing_req,         \* the running call: its storage_path, overrides and
                     \* what the extractor returned
    storage,         \* the files under UPLOAD_DIR
    pdfs,            \* the rows of table pdfs, in insertion order
    ing_log,         \* how every ingest call so far ended
    \* ---- column ordering (extract_sangram.py, ----------------------
    \* ---- extract_text_and_metadata.py) -----------------------------
    page_rect,       \* page.rect as <<x0, y0, x1, y1>>
    raw_blocks,      \* page.get_text("blocks"): records x0, y0, x1, y1, txt
    cpc,             \* which step of the page loop has run
    is_two,          \* detect_two_columns(...)[0]
    median_x,        \* detect_two_columns(...)[1]: <<>> for None, or <<med>>
    blocks_sorted,   \* the blocks in the order extract_pdf reads them
    merged,          \* merge_blocks_reading_order: the texts in the order
                     \* they are joined
    \* ---- concurrent callers of the vector store ----------------------
    txs,             \* per writer: where its add_with_embeddings call is,
                     \* its batch and how many tuples it has executed
    seen,            \* the rows the reader's last SELECT fetched
    \* ---- heading detection (layout.py) -------------------------------
    blocks_by_page,  \* per page, the lines of its blocks in block order
    heads,           \* <<>> until detect_headings returns, then <<list>>
    \* ---- sentence index (sqlite_index.py) ----------------------------
    idx_tx,          \* SentIndex._tx
    idx_rows,        \* the rows of table sentences as the connection sees
                     \* them, each with its rowid
    idx_fts,         \* the (rowid, text) pairs inserted into sentences_fts
    idx_disk,        \* the rows of table sentences that are committed
    idx_batch,       \* the batch add_batch was called with, <<>> before
    idx_k            \* how many records of the batch have been inserted

adjVars == <<raw_sentences, sim, top_k, threshold, pc, top_queries,
             ranked_queries, qi, llm_responses, max_score, any_yes, calls,
             error, result>>

sentVars == <<doc, pno, global_cursor, recs, written, spc>>

dbVars == <<db_exists, db_rows, last_add, db_out>>

hlVars == <<pdf_bytes, sentences, llm_outputs, hpc, yes_ids, hk, hdoc, hret>>

ingVars == <<ing_pc, ing_req, storage, pdfs, ing_log>>

colVars == <<page_rect, raw_blocks, cpc, is_two, median_x, blocks_sorted, merged>>

ccVars == <<txs, seen>>

headVars == <<blocks_by_page, heads>>

idxVars == <<idx_tx, idx_rows, idx_fts, idx_disk, idx_batch, idx_k>>

extVars == <<ingVars, colVars, ccVars, headVars, idxVars>>

vars == <<adjVars, sentVars, dbVars, hlVars, extVars>>

\* no VectorDB call has been made and no table exists
DbIdle ==
    /\ db_exists = FALSE
    /\ db_rows = <<>>
    /\ last_add = <<>>
    /\ db_out = <<>>

\* no ingest call has been made
IngIdle ==
    /\ ing_pc = "idle"
    /\ ing_req = <<>>
    /\ storage = {}
    /\ pdfs = <<>>
    /\ ing_log = <<>>

\* no page has been given to the column ordering
ColIdle ==
    /\ page_rect = <<>>
    /\ raw_blocks = <<>>
    /\ cpc = "idle"
    /\ is_two = FALSE
    /\ median_x = <<>>
    /\ blocks_sorted = <<>>
    /\ merged = <<>>

\* the vector store has no concurrent callers
CcIdle ==
    /\ txs = <<>>
    /\ seen = <<>>

\* detect_headings has not been called
HeadIdle ==
    /\ blocks_by_page = <<>>
    /\ heads = <<>>

\* a SentIndex has just been constructed on a new file (lines 31-36)
IdxIdle ==
    /\ idx_tx = FALSE
    /\ idx_rows = <<>>
    /\ idx_fts = <<>>
    /\ idx_disk = <<>>
    /\ idx_batch = <<>>
    /\ idx_k = 0

\* the stages outside the adjudication, indexing, vector store and
\* annotation stages are not running
ExtIdle ==
    /\ IngIdle
    /\ ColIdle
    /\ CcIdle
    /\ HeadIdle
    /\ IdxIdle

\* the annotation stage is not running
HlIdle ==
    /\ pdf_bytes = <<>>
    /\ sentences = <<>>
    /\ llm_outputs = <<>>
    /\ hpc = "idle"
    /\ yes_ids = <<>>
    /\ hk = 1
    /\ hdoc = <<>>
    /\ hret = <<>>

\* ------------------------------------------------------------------------
\* Bounds of the model
\* ------------------------------------------------------------------------
MaxSent == 3
MaxPages == 2
MaxLines == 2

\* ------------------------------------------------------------------------
\* Program constants
\* ------------------------------------------------------------------------
DefaultTopK == 7
DefaultThreshold == 70000
SearchK == 3

\* ------------------------------------------------------------------------
\* Helpers on sequences
\* ------------------------------------------------------------------------
Range(s) == {s[j] : j \in 1..Len(s)}

Max2(a, b) == IF a >= b THEN a ELSE b

Min2(a, b) == IF a <= b THEN a ELSE b

MaxOf(S) == CHOOSE x \in S : \A y \in S : y <= x

MinOf(S) == CHOOSE x \in S : \A y \in S : x <= y

\* s[:n] of Python for a list s and an int n (a negative n counts from the end)
Take(s, n) ==
    LET m == IF n >= 0 THEN Min2(n, Len(s)) ELSE Max2(Len(s) + n, 0)
    IN  SubSeq(s, 1, m)

\* ------------------------------------------------------------------------
\* Inputs of the adjudication stage
\* ------------------------------------------------------------------------
Texts == {"ta", "tb"}

Scores == {69996, 70004, 91236}

TopKs == {0, 1, DefaultTopK}

Thresholds == {DefaultThreshold, 80000}

\* the sentence list of the extractor JSON: ids and pages follow the position
Documents ==
    UNION {[1..n -> Texts] : n \in 0..MaxSent}

SentenceOf(d, j) == [id |-> j, page |-> j, text |-> d[j]]

SentencesOf(d) == [j \in 1..Len(d) |-> SentenceOf(d, j)]

\* the sentence_embeddings table seen from one query text: the cosine
\* similarity of every stored reference phrase, in the order the rows are read
RowLists ==
    {<<>>} \cup {<<[match |-> "p1", score |-> a]>> : a \in Scores}
           \cup {<<[match |-> "p1", score |-> a], [match |-> "p2", score |-> b]>> :
                    a \in Scores, b \in Scores}

\* ------------------------------------------------------------------------
\* Model answers: sequences of tokens
\* ------------------------------------------------------------------------
AnswerYes == <<"Answer:", "Yes">>

Contents ==
    { <<" ", "Answer:", "Yes", "Reason">>,
      <<"Answer:", "No", "Reason">>,
      <<"Note", "Answer:", "Yes">> }

IsSpaceTok(t) == t \in {" ", "\n"}

RECURSIVE LStrip(_)
LStrip(s) ==
    IF s # <<>> /\ IsSpaceTok(Head(s)) THEN LStrip(Tail(s)) ELSE s

RECURSIVE RStrip(_)
RStrip(s) ==
    IF s # <<>> /\ IsSpaceTok(s[Len(s)]) THEN RStrip(SubSeq(s, 1, Len(s) - 1)) ELSE s

\* str.strip()
Strip(s) == RStrip(LStrip(s))

\* s.startswith(p)
StartsWith(s, p) == Len(s) >= Len(p) /\ SubSeq(s, 1, Len(p)) = p

\* p in s
Contains(s, p) ==
    \E j \in 1..(Len(s) - Len(p) + 1) : SubSeq(s, j, j + Len(p) - 1) = p

\* round(x, 4) on a score counted in 1e-5: to the nearest multiple of 10,
\* a tie to the even one
Round4(x) ==
    LET q == x \div 10
        r == x % 10
    IN  IF r < 5 THEN 10 * q
        ELSE IF r > 5 THEN 10 * (q + 1)
        ELSE IF q % 2 = 0 THEN 10 * q ELSE 10 * (q + 1)

\* ------------------------------------------------------------------------
\* search_sentences (src/src/similarity_search.py)
\* ------------------------------------------------------------------------
\* insert x into a list sorted by descending score, after its equals
RECURSIVE RowInsertDesc(_, _)
RowInsertDesc(x, s) ==
    IF s = <<>> THEN <<x>>
    ELSE IF Head(s).score >= x.score THEN <<Head(s)>> \o RowInsertDesc(x, Tail(s))
         ELSE <<x>> \o s

RECURSIVE OrderBySimilarity(_)
OrderBySimilarity(s) ==
    IF s = <<>> THEN <<>>
    ELSE RowInsertDesc(s[Len(s)], OrderBySimilarity(SubSeq(s, 1, Len(s) - 1)))

\* SELECT ... ORDER BY embedding <=> q LIMIT k
QueryRows(rows, k) == Take(OrderBySimilarity(rows), k)

\* the keys of a dict built by assigning results[sent] for sent in order
RECURSIVE DictKeys(_)
DictKeys(s) ==
    IF s = <<>> THEN <<>>
    ELSE LET init == DictKeys(SubSeq(s, 1, Len(s) - 1))
             x == s[Len(s)]
         IN  IF x \in Range(init) THEN init ELSE Append(init, x)

\* results: the dict as its items in insertion order
search_sentences(texts, k) ==
    LET keys == DictKeys(texts)
    IN  [j \in 1..Len(keys) |->
            [query |-> keys[j], matches |-> QueryRows(sim[keys[j]], k)]]

\* ------------------------------------------------------------------------
\* run_llm_verification_from_json (src/src/backend/app/services/llm_service.py)
\* ------------------------------------------------------------------------
\* [s.get("text", "") for s in raw_sentences if isinstance(s, dict) and "text" in s]
sentences_text(raw) == [j \in 1..Len(raw) |-> raw[j].text]

\* faulty variant: every score passes the filter
ScoreClears_Always(score, thr) == TRUE

\* faulty variant: the rounded score is compared
ScoreClears_Rounded(score, thr) == Round4(score) >= thr

\* score >= threshold, the test of lines 62 and 64
ScoreClears(score, thr) == score >= thr

\* [(match, score) for (match, score) in matches if score >= threshold]
RECURSIVE MatchesAbove(_, _)
MatchesAbove(matches, thr) ==
    IF matches = <<>> THEN <<>>
    ELSE IF ScoreClears(Head(matches).score, thr)
         THEN <<Head(matches)>> \o MatchesAbove(Tail(matches), thr)
         ELSE MatchesAbove(Tail(matches), thr)

\* any(score >= threshold for (_, score) in matches)
AnyAbove(matches, thr) == \E j \in 1..Len(matches) : ScoreClears(matches[j].score, thr)

\* filtered_results, as items in insertion order
RECURSIVE filtered_results(_, _)
filtered_results(results, thr) ==
    IF results = <<>> THEN <<>>
    ELSE LET it == Head(results)
             rest == filtered_results(Tail(results), thr)
         IN  IF AnyAbove(it.matches, thr)
             THEN <<[query |-> it.query, matches |-> MatchesAbove(it.matches, thr)]>> \o rest
             ELSE rest

\* max(score for _, score in matches)
BestScore(matches) == MaxOf({matches[j].score : j \in 1..Len(matches)})

\* the triples (query_sentence, matches, best), before the sort
Triples(filtered) ==
    [j \in 1..Len(filtered) |->
        [query |-> filtered[j].query, matches |-> filtered[j].matches,
         best |-> BestScore(filtered[j].matches)]]

\* faulty variant: the sort is ascending (reverse=True forgotten)
RECURSIVE RankInsert_Ascending(_, _)
RankInsert_Ascending(x, s) ==
    IF s = <<>> THEN <<x>>
    ELSE IF Head(s).best <= x.best THEN <<Head(s)>> \o RankInsert_Ascending(x, Tail(s))
         ELSE <<x>> \o s

\* list.sort(key=best, reverse=True): stable, equal keys keep their order
RECURSIVE RankInsert(_, _)
RankInsert(x, s) ==
    IF s = <<>> THEN <<x>>
    ELSE IF Head(s).best >= x.best THEN <<Head(s)>> \o RankInsert(x, Tail(s))
         ELSE <<x>> \o s

RECURSIVE SortByBest(_)
SortByBest(s) ==
    IF s = <<>> THEN <<>>
    ELSE RankInsert(s[Len(s)], SortByBest(SubSeq(s, 1, Len(s) - 1)))

\* faulty variant: the candidates are not sorted
Ranked_Unsorted(raw, thr) ==
    Triples(filtered_results(search_sentences(sentences_text(raw), SearchK), thr))

\* ranked_queries after the sort
Ranked(raw, thr) ==
    SortByBest(Triples(filtered_results(search_sentences(sentences_text(raw), SearchK), thr)))

\* ranked_queries[:top_k]
TopQueries(ranked, k) == Take(ranked, k)

\* build_prompt: what of the candidate goes into the prompt
build_prompt(query_sentence, matches) ==
    [sentence |-> query_sentence,
     top_match |-> matches[1].match,
     top_score |-> matches[1].score]

\* next((s for s in raw_sentences if s.get("text") == query_sentence), {})
Meta(raw, query_sentence) ==
    LET hits == {j \in 1..Len(raw) : raw[j].text = query_sentence}
    IN  IF hits = {} THEN [id |-> "None", page |-> "None"]
        ELSE LET j == CHOOSE a \in hits : \A b \in hits : a <= b
             IN  [id |-> raw[j].id, page |-> raw[j].page]

\* the dict appended to llm_responses
ResponseRecord(raw, q, answer_text) ==
    LET meta == Meta(raw, q.query)
    IN  [sentence_id |-> meta.id,
         page |-> meta.page,
         index |-> "None",
         query_text |-> q.query,
         similarity_score |-> Round4(q.best),
         llm_response |-> answer_text]

\* "Answer: Yes" in answer_text
IsYes(answer_text) == Contains(answer_text, AnswerYes)

\* the dict returned when raw_sentences is empty
EmptyResult == [cmca_result |-> "No", cosine_similarity |-> 0]

\* faulty variant: the confidence is taken over the positive records only
FinalResult_PositivesOnly ==
    LET pos == {j \in 1..Len(llm_responses) :
                   Contains(llm_responses[j].llm_response, AnswerYes)}
    IN  [cmca_result |-> IF any_yes THEN "Yes" ELSE "No",
         cosine_similarity |->
            IF pos = {} THEN 0
            ELSE MaxOf({llm_responses[j].similarity_score : j \in pos}),
         Sentence_verifications |-> llm_responses]

\* the dict returned after the loop
FinalResult ==
    [cmca_result |-> IF any_yes THEN "Yes" ELSE "No",
     cosine_similarity |-> Round4(max_score),
     Sentence_verifications |-> llm_responses]

\* ------------------------------------------------------------------------
\* The run as a state machine
\* ------------------------------------------------------------------------
Init ==
    /\ \E d \in Documents : raw_sentences = SentencesOf(d)
    /\ sim \in [Texts -> RowLists]
    /\ \A t \in Texts :
          t \notin {raw_sentences[j].text : j \in 1..Len(raw_sentences)} => sim[t] = <<>>
    /\ top_k \in TopKs
    /\ threshold \in Thresholds
    /\ pc = "start"
    /\ top_queries = <<>>
    /\ ranked_queries = <<>>
    /\ qi = 1
    /\ llm_responses = <<>>
    /\ max_score = 0
    /\ any_yes = FALSE
    /\ calls = <<>>
    /\ error = "none"
    /\ result = <<>>
    /\ doc = <<>>
    /\ pno = 0
    /\ global_cursor = 0
    /\ recs = <<>>
    /\ written = <<>>
    /\ spc = "closed"
    /\ DbIdle
    /\ HlIdle
    /\ ExtIdle

inputs == <<raw_sentences, sim, top_k, threshold>>

\* lines 50-52: no sentences, return at once
ShortCircuit ==
    /\ pc = "start"
    /\ raw_sentences = <<>>
    /\ result' = <<EmptyResult>>
    /\ pc' = "done"
    /\ UNCHANGED <<sentVars, dbVars, hlVars, extVars, inputs, top_queries, ranked_queries, qi, llm_responses,
                   max_score, any_yes, calls, error>>

\* lines 54-78: retrieve, filter, rank, cut to top_k
Rank ==
    /\ pc = "start"
    /\ raw_sentences # <<>>
    /\ ranked_queries' = Ranked(raw_sentences, threshold)
    /\ top_queries' = TopQueries(ranked_queries', top_k)
    /\ llm_responses' = <<>>
    /\ max_score' = 0
    /\ any_yes' = FALSE
    /\ qi' = 1
    /\ pc' = "loop"
    /\ UNCHANGED <<sentVars, dbVars, hlVars, extVars, inputs, calls, error, result>>

\* client.chat.completions.create(model=..., messages=[..., prompt]) is entered
NewCall(model, q) ==
    [model |-> model,
     prompt |-> build_prompt(q.query, q.matches),
     outcome |-> "pending",
     content |-> <<>>]

\* the call in flight ends: it returns content, or raises
Ended(log, outcome, content) ==
    [log EXCEPT ![Len(log)] = [@ EXCEPT !.outcome = outcome, !.content = content]]

\* lines 81-92: the next candidate; its prompt goes to the primary model
CallPrimary ==
    /\ pc = "loop"
    /\ qi <= Len(top_queries)
    /\ calls' = Append(calls, NewCall("gpt-4o", top_queries[qi]))
    /\ pc' = "primary"
    /\ UNCHANGED <<sentVars, dbVars, hlVars, extVars, inputs, top_queries, ranked_queries, qi, llm_responses,
                   max_score, any_yes, error, result>>

\* faulty variant: the two aggregates are assigned, not accumulated
LoopStep_LastWins(acc, q, answer_text) ==
    [max_score |-> q.best, any_yes |-> IsYes(answer_text)]

\* lines 107-109: what one iteration does to max_score and any_yes
LoopStep(acc, q, answer_text) ==
    [max_score |-> Max2(acc.max_score, q.best),
     any_yes |-> (acc.any_yes \/ IsYes(answer_text))]

\* lines 105-120: the response is recorded and the loop goes on
Record(content) ==
    LET answer_text == Strip(content)
        q == top_queries[qi]
        acc == LoopStep([max_score |-> max_score, any_yes |-> any_yes], q, answer_text)
    IN  /\ max_score' = acc.max_score
        /\ any_yes' = acc.any_yes
        /\ llm_responses' = Append(llm_responses, ResponseRecord(raw_sentences, q, answer_text))
        /\ qi' = qi + 1
        /\ pc' = "loop"

PrimaryResponds ==
    /\ pc = "primary"
    /\ \E content \in Contents :
          /\ calls' = Ended(calls, "ok", content)
          /\ Record(content)
    /\ UNCHANGED <<sentVars, dbVars, hlVars, extVars, inputs, top_queries, ranked_queries, error, result>>

\* lines 93-103: openai.RateLimitError, the same prompt goes to the fallback model
PrimaryRateLimited ==
    /\ pc = "primary"
    /\ calls' = Append(Ended(calls, "RateLimitError", <<>>),
                       NewCall("gpt-3.5-turbo", top_queries[qi]))
    /\ pc' = "fallback"
    /\ UNCHANGED <<sentVars, dbVars, hlVars, extVars, inputs, top_queries, ranked_queries, qi, llm_responses,
                   max_score, any_yes, error, result>>

\* faulty variant: any exception of the primary call falls back
PrimaryFails_FallsBack ==
    /\ pc = "primary"
    /\ calls' = Append(Ended(calls, "APIError", <<>>),
                       NewCall("gpt-3.5-turbo", top_queries[qi]))
    /\ pc' = "fallback"
    /\ UNCHANGED <<sentVars, dbVars, hlVars, extVars, inputs, top_queries, ranked_queries, qi, llm_responses,
                   max_score, any_yes, error, result>>

\* line 85: any other exception of the primary call leaves the function
PrimaryFails ==
    /\ pc = "primary"
    /\ error' = "APIError"
    /\ calls' = Ended(calls, error', <<>>)
    /\ pc' = "raised"
    /\ UNCHANGED <<sentVars, dbVars, hlVars, extVars, inputs, top_queries, ranked_queries, qi, llm_responses,
                   max_score, any_yes, result>>

FallbackResponds ==
    /\ pc = "fallback"
    /\ \E content \in Contents :
          /\ calls' = Ended(calls, "ok", content)
          /\ Record(content)
    /\ UNCHANGED <<sentVars, dbVars, hlVars, extVars, inputs, top_queries, ranked_queries, error, result>>

\* faulty variant: a failed fallback is recorded as "Answer: No" and the loop goes on
FallbackFails_DefaultNo ==
    /\ pc = "fallback"
    /\ calls' = Ended(calls, "APIError", <<>>)
    /\ Record(<<"Answer:", "No">>)
    /\ UNCHANGED <<sentVars, dbVars, hlVars, extVars, inputs, top_queries, ranked_queries, error, result>>

\* line 96: an exception of the fallback call, raised inside the handler,
\* leaves the function
FallbackFails ==
    /\ pc = "fallback"
    /\ \E e \in {"RateLimitError", "APIError"} : error' = e
    /\ calls' = Ended(calls, error', <<>>)
    /\ pc' = "raised"
    /\ UNCHANGED <<sentVars, dbVars, hlVars, extVars, inputs, top_queries, ranked_queries, qi, llm_responses,
                   max_score, any_yes, result>>

\* lines 122-127: the loop is over
Return ==
    /\ pc = "loop"
    /\ qi > Len(top_queries)
    /\ result' = <<FinalResult>>
    /\ pc' = "done"
    /\ UNCHANGED <<sentVars, dbVars, hlVars, extVars, inputs, top_queries, ranked_queries, qi, llm_responses,
                   max_score, any_yes, calls, error>>

\* where candidate j of top_queries stands in the call protocol
Phase(j) ==
    IF j < qi THEN "Done"
    ELSE IF j > qi THEN "Pending"
    ELSE CASE pc = "primary" -> "PrimaryAttempted"
           [] pc = "fallback" -> "FallbackAttempted"
           [] pc = "raised" -> "Failed"
           [] OTHER -> "Pending"

Next ==
    \/ ShortCircuit
    \/ Rank
    \/ CallPrimary
    \/ PrimaryResponds
    \/ PrimaryRateLimited
    \/ PrimaryFails
    \/ FallbackResponds
    \/ FallbackFails
    \/ Return

Spec == Init /\ [][Next]_vars

\* ------------------------------------------------------------------------
\* What the claims speak of, read off the inputs and the outputs
\* ------------------------------------------------------------------------
Returned == result # <<>>

DocTexts == {raw_sentences[j].text : j \in 1..Len(raw_sentences)}

\* the best similarity of a text against the reference collection
TrueBest(t) == MaxOf({sim[t][j].score : j \in 1..Len(sim[t])})

\* the texts of the document whose best similarity meets the threshold
Cleared == {t \in DocTexts : sim[t] # <<>> /\ TrueBest(t) >= threshold}

\* the texts for which a model call was made
Sent == {calls[j].prompt.sentence : j \in 1..Len(calls)}

CallsOf(t, model) ==
    Cardinality({j \in 1..Len(calls) :
                    calls[j].prompt.sentence = t /\ calls[j].model = model})

\* the raw answers of the adjudicated sentences
Answers == {llm_responses[j].llm_response : j \in 1..Len(llm_responses)}

(* C1: the returned verdict is "Yes" if and only if the raw answer of at    *)
(* least one adjudicated sentence starts with "Answer: Yes".                *)
C1_VerdictYesIffStartsWith ==
    Returned =>
        (result[1].cmca_result = "Yes"
            <=> \E a \in Answers : StartsWith(a, AnswerYes))

(* C2, as claimed: the returned confidence equals the maximum best          *)
(* similarity over all ranked candidates, for every top_k.                  *)
C2_ConfidenceIsMaxOverRanked ==
    Returned =>
        result[1].cosine_similarity =
            (IF Cleared = {} THEN 0 ELSE MaxOf({TrueBest(t) : t \in Cleared}))

(* C2, amended: for top_k >= 1 (and a threshold >= 0) the returned          *)
(* confidence is the maximum best similarity over all ranked candidates,    *)
(* rounded to four decimals, and 0.0 when no candidate was ranked.          *)
C2_ConfidenceIsRoundedMaxOverRanked ==
    (Returned /\ top_k >= 1 /\ threshold >= 0) =>
        result[1].cosine_similarity =
            (IF Cleared = {} THEN 0 ELSE Round4(MaxOf({TrueBest(t) : t \in Cleared})))

\* a run with top_k >= 1 has returned; two candidates were ranked, the second
\* of them was not sent to the model, and the best score is no multiple of 1e-4
C2_Witness ==
    /\ Returned
    /\ top_k >= 1
    /\ Cardinality(Cleared) >= 2
    /\ Cleared \ Sent # {}
    /\ llm_responses # <<>>
    /\ result[1].cosine_similarity # MaxOf({TrueBest(t) : t \in Cleared})

\* the records whose answer the stage counts as positive
Positives == {j \in 1..Len(llm_responses) : IsYes(llm_responses[j].llm_response)}

(* C3, as claimed: the confidence is the maximum similarity among the       *)
(* positively labelled candidates, and 0.0 when none is positive.           *)
C3_ConfidenceOverPositives ==
    Returned =>
        result[1].cosine_similarity =
            (IF Positives = {} THEN 0
             ELSE MaxOf({llm_responses[j].similarity_score : j \in Positives}))

(* C3, amended: the confidence is the maximum similarity_score among all    *)
(* verification records of the run, whatever their answers, and 0.0 only    *)
(* when no sentence was adjudicated.                                        *)
C3_ConfidenceOverAdjudicated ==
    Returned =>
        /\ result[1].cosine_similarity =
              (IF llm_responses = <<>> THEN 0
               ELSE MaxOf({llm_responses[j].similarity_score : j \in 1..Len(llm_responses)}))
        /\ (result[1].cosine_similarity = 0 <=> llm_responses = <<>>)

\* a run has returned "No" with a non-zero confidence: sentences were
\* adjudicated and none was positive
C3_Witness ==
    /\ Returned
    /\ result[1].cmca_result = "No"
    /\ llm_responses # <<>>
    /\ Positives = {}
    /\ result[1].cosine_similarity > 0

(* C4: when the document has no sentence, or no sentence whose best         *)
(* similarity meets the threshold, no model call is ever made and the       *)
(* result is verdict "No" with confidence 0.0.                              *)
C4_NothingClearsNoCalls ==
    (Cleared = {}) =>
        /\ calls = <<>>
        /\ Returned => (result[1].cmca_result = "No" /\ result[1].cosine_similarity = 0)

\* a run over a document with sentences, none of which clears, has returned
C4_Witness ==
    /\ Returned
    /\ raw_sentences # <<>>
    /\ \E t \in DocTexts : sim[t] # <<>>
    /\ Cleared = {}

\* the edges of the protocol as the claim draws it
ClaimedEdges ==
    { <<"Pending", "PrimaryAttempted">>,
      <<"PrimaryAttempted", "Done">>,
      <<"PrimaryAttempted", "FallbackAttempted">>,
      <<"FallbackAttempted", "Done">>,
      <<"FallbackAttempted", "Failed">> }

EdgesWithin(edges) ==
    \A j \in 1..Len(top_queries) :
        Phase(j)' # Phase(j) => <<Phase(j), Phase(j)'>> \in edges

(* C5, as claimed: every selected sentence moves only along                 *)
(* Pending -> Primary-Attempted -> {Done | Fallback-Attempted ->            *)
(* {Done | Failed}}.                                                        *)
C5_ProtocolAsClaimed == [][EdgesWithin(ClaimedEdges)]_vars

\* the calls made for candidate j are those its phase allows
CallCountsOf(j) ==
    LET t == top_queries[j].query
        np == CallsOf(t, "gpt-4o")
        nf == CallsOf(t, "gpt-3.5-turbo")
    IN  CASE Phase(j) = "Pending" -> np = 0 /\ nf = 0
          [] Phase(j) = "PrimaryAttempted" -> np = 1 /\ nf = 0
          [] Phase(j) = "FallbackAttempted" -> np = 1 /\ nf = 1
          [] OTHER -> np = 1 /\ nf <= 1

\* a fallback call directly follows a primary call with the same prompt that
\* ended in a rate-limit error
FallbackOnlyAfterRateLimit ==
    \A k \in 1..Len(calls) :
        calls[k].model = "gpt-3.5-turbo" =>
            /\ k > 1
            /\ calls[k - 1].model = "gpt-4o"
            /\ calls[k - 1].prompt = calls[k].prompt
            /\ calls[k - 1].outcome = "RateLimitError"

\* the last call made for a text
LastCallOf(t) ==
    calls[CHOOSE k \in 1..Len(calls) :
             /\ calls[k].prompt.sentence = t
             /\ \A m \in 1..Len(calls) : calls[m].prompt.sentence = t => m <= k]

\* every record holds the stripped answer of the last call made for its
\* sentence, the fallback's when there was one
RecordedAnswerIsLastCalls ==
    \A j \in 1..Len(llm_responses) :
        LET c == LastCallOf(llm_responses[j].query_text)
        IN  c.outcome = "ok" /\ llm_responses[j].llm_response = Strip(c.content)

(* C5, amended: every selected sentence moves only along the claimed edges  *)
(* or, when the primary call fails with another error than a rate limit,    *)
(* from Primary-Attempted straight to Failed; a sentence that left Pending  *)
(* has had exactly one primary call, and every sentence of a run that       *)
(* returned has; the fallback is called at most once, directly after a      *)
(* rate-limit error of the primary call; the recorded answer is that of     *)
(* the last call.                                                           *)
C5_ProtocolWithDirectFailure ==
    /\ [](\A j \in 1..Len(top_queries) : CallCountsOf(j))
    /\ [](Returned => \A j \in 1..Len(top_queries) :
                         Phase(j) = "Done" /\ CallsOf(top_queries[j].query, "gpt-4o") = 1)
    /\ []FallbackOnlyAfterRateLimit
    /\ []RecordedAnswerIsLastCalls
    /\ [][EdgesWithin(ClaimedEdges \cup {<<"PrimaryAttempted", "Failed">>})]_vars

\* a run has returned in which one sentence was answered by the primary model
\* and another by the fallback model
C5_Witness ==
    /\ Returned
    /\ Len(llm_responses) >= 2
    /\ \E k \in 1..Len(calls) : calls[k].model = "gpt-3.5-turbo" /\ calls[k].outcome = "ok"
    /\ \E k \in 1..Len(calls) : calls[k].model = "gpt-4o" /\ calls[k].outcome = "ok"

\* the fallback call of some sentence has failed
FallbackFailed ==
    \E k \in 1..Len(calls) :
        calls[k].model = "gpt-3.5-turbo" /\ calls[k].outcome \notin {"pending", "ok"}

(* C6: once the fallback call of a sentence has failed, the run has ended   *)
(* with an exception: nothing is returned, and the failed sentence has no   *)
(* verification record.                                                     *)
C6_FallbackFailurePropagates ==
    FallbackFailed =>
        /\ pc = "raised"
        /\ error # "none"
        /\ ~Returned
        /\ \A j \in 1..Len(llm_responses) :
              llm_responses[j].query_text # calls[Len(calls)].prompt.sentence

\* the fallback failed on the second sentence: a record of the first exists
C6_Witness ==
    /\ FallbackFailed
    /\ llm_responses # <<>>
    /\ pc = "raised"

(* C7: at most top_k sentences are sent to the model, and no sentence that  *)
(* cleared the threshold and was not sent has a strictly higher best        *)
(* similarity than a sentence that was sent.                                *)
C7_TopNStrongest ==
    /\ Cardinality(Sent) <= top_k
    /\ Len(calls) <= 2 * top_k
    /\ \A s \in Sent : \A u \in Cleared \ Sent : TrueBest(u) <= TrueBest(s)

\* a run has returned in which the weaker of two candidates was not sent
C7_Witness ==
    /\ Returned
    /\ \E s \in Sent : \E u \in Cleared \ Sent : TrueBest(u) < TrueBest(s)

(* C8: every sentence for which a model call is made, and every sentence    *)
(* of a verification record, has a best similarity of at least the          *)
(* threshold.                                                               *)
C8_OnlyClearedAdjudicated ==
    /\ \A t \in Sent : sim[t] # <<>> /\ TrueBest(t) >= threshold
    /\ \A j \in 1..Len(llm_responses) :
          LET t == llm_responses[j].query_text
          IN  sim[t] # <<>> /\ TrueBest(t) >= threshold

\* a run has returned that adjudicated one sentence and left out another,
\* whose best similarity is below the threshold
C8_Witness ==
    /\ Returned
    /\ Sent # {}
    /\ \E t \in DocTexts \ Sent : sim[t] # <<>> /\ TrueBest(t) < threshold

VerificationFields == {"sentence_id", "page", "similarity_score", "llm_response"}

(* C9: every returned result has the fields cmca_result ("Yes" or "No"),    *)
(* cosine_similarity and sentence_verifications, the last a list whose      *)
(* entries carry sentence_id, page, similarity_score and llm_response.      *)
C9_OutputContract ==
    Returned =>
        /\ {"cmca_result", "cosine_similarity", "sentence_verifications"}
              \subseteq DOMAIN result[1]
        /\ result[1].cmca_result \in {"Yes", "No"}
        /\ \A j \in 1..Len(result[1].sentence_verifications) :
              VerificationFields \subseteq DOMAIN result[1].sentence_verifications[j]

\* ========================================================================
\* The sentence indexer (src/src/extraction/sentences.py)
\* ========================================================================
\* A text is a sequence of characters, each a string; offsets are Python's,
\* counted from 0.
UpperChars ==
    <<"A", "B", "C", "D", "E", "F", "G", "H", "I", "J", "K", "L", "M",
      "N", "O", "P", "Q", "R", "S", "T", "U", "V", "W", "X", "Y", "Z">>

LowerChars ==
    <<"a", "b", "c", "d", "e", "f", "g", "h", "i", "j", "k", "l", "m",
      "n", "o", "p", "q", "r", "s", "t", "u", "v", "w", "x", "y", "z">>

DigitChars == <<"0", "1", "2", "3", "4", "5", "6", "7", "8", "9">>

\* the characters str.strip(), str.split() and \s take for whitespace
IsSpace(c) == c \in {" ", "\n", "\t", "nbsp"}

\* [\.!?]
IsSentPunct(c) == c \in {".", "!", "?"}

\* [A-Z(“"']
IsStarter(c) == c \in Range(UpperChars) \cup {"(", "ldquo", "dquote", "'"}

\* [A-Za-z\.]
IsWordChar(c) == c \in Range(UpperChars) \cup Range(LowerChars) \cup {"."}

\* s[a:b] for 0 <= a, b
Slice(s, a, b) == SubSeq(s, a + 1, Min2(b, Len(s)))

\* str.lower() of one character
LowerChar(c) ==
    IF c \in Range(UpperChars)
    THEN LowerChars[CHOOSE k \in 1..26 : UpperChars[k] = c]
    ELSE c

Lower(s) == [k \in 1..Len(s) |-> LowerChar(s[k])]

\* unicodedata.normalize("NFKC", c) of one character: the compatibility
\* characters of the model are the no-break space and the fi ligature
NFKCChar(c) ==
    CASE c = "nbsp" -> <<" ">>
      [] c = "fi-ligature" -> <<"f", "i">>
      [] OTHER -> <<c>>

\* every character replaced by its compatibility form
RECURSIVE NFKD(_)
NFKD(s) == IF s = <<>> THEN <<>> ELSE NFKCChar(Head(s)) \o NFKD(Tail(s))

\* canonical composition: a small h followed by the combining macron below
\* (U+0331) becomes the one character U+1E96; the capital H has no such form
IsChar(c) == c # ""

ComposePairs(s) ==
    LET n == Len(s)
        marked == [i \in 1..n |->
            IF s[i] = "h" /\ i < n /\ s[i + 1] = "macron-below"
            THEN "h-macron-below"
            ELSE IF s[i] = "macron-below" /\ i > 1 /\ s[i - 1] = "h"
            THEN ""
            ELSE s[i]]
    IN  SelectSeq(marked, IsChar)

\* unicodedata.normalize("NFKC", s)
NFKC(s) == ComposePairs(NFKD(s))

RECURSIVE LStripText(_)
LStripText(s) ==
    IF s # <<>> /\ IsSpace(Head(s)) THEN LStripText(Tail(s)) ELSE s

RECURSIVE RStripText(_)
RStripText(s) ==
    IF s # <<>> /\ IsSpace(s[Len(s)]) THEN RStripText(SubSeq(s, 1, Len(s) - 1)) ELSE s

\* str.strip() on a text
StripText(s) == RStripText(LStripText(s))

RECURSIVE Concat(_)
Concat(ss) == IF ss = <<>> THEN <<>> ELSE Head(ss) \o Concat(Tail(ss))

\* _line_text: the span texts joined, stripped
line_text(line) ==
    StripText(Concat([k \in 1..Len(line.spans) |-> line.spans[k].text]))

\* _line_bbox: the union of the span boxes
line_bbox(line) ==
    LET n == Len(line.spans)
        xs == {line.spans[k].bbox[1] : k \in 1..n} \cup {line.spans[k].bbox[3] : k \in 1..n}
        ys == {line.spans[k].bbox[2] : k \in 1..n} \cup {line.spans[k].bbox[4] : k \in 1..n}
    IN  <<MinOf(xs), MinOf(ys), MaxOf(xs), MaxOf(ys)>>

\* " ".join(s.split()): runs of whitespace become one space, the ends are cut
RECURSIVE CollapseFrom(_, _)
CollapseFrom(s, pending) ==
    IF s = <<>> THEN <<>>
    ELSE IF IsSpace(Head(s)) THEN CollapseFrom(Tail(s), TRUE)
    ELSE (IF pending THEN <<" ">> ELSE <<>>) \o <<Head(s)>> \o CollapseFrom(Tail(s), FALSE)

CollapseWhitespace(s) == CollapseFrom(LStripText(s), FALSE)

\* _norm_for_hash
norm_for_hash(s) == Lower(CollapseWhitespace(NFKC(s)))

\* _hash16: the first 16 hex digits of the SHA-1 of the text; the model takes
\* the digest to tell any two texts apart
hash16(s) == <<"sha1">> \o s

\* the abbreviations of _ABBR, lower case
AbbrWords ==
    { <<"m", "r">>, <<"m", "r", "s">>, <<"m", "s">>, <<"d", "r">>,
      <<"p", "r", "o", "f">>, <<"s", "r">>, <<"j", "r">>, <<"s", "t">>,
      <<"m", "t">>, <<"v", "s">>, <<"n", "o">>, <<"i", "n", "c">>,
      <<"l", "t", "d">>, <<"f", "i", "g">>, <<"e", "q">>, <<"r", "e", "f">>,
      <<"e", "t", " ", "a", "l">>, <<"i", ".", "e">>, <<"e", ".", "g">>,
      <<"c", "f">>, <<"p", "h", ".", "d">>, <<"m", ".", "s", "c">>,
      <<"u", ".", "s">>, <<"u", ".", "k">> }

\* _ABBR_WORD_RE.match(word), case-insensitive
IsAbbrWord(word) == Lower(word) \in AbbrWords

\* re.search(r"([A-Za-z\.]+)$", chunk): the longest run of letters and dots
\* that ends the chunk
RECURSIVE LastWord(_)
LastWord(chunk) ==
    IF chunk = <<>> \/ ~IsWordChar(chunk[Len(chunk)]) THEN <<>>
    ELSE Append(LastWord(SubSeq(chunk, 1, Len(chunk) - 1)), chunk[Len(chunk)])

AbbrLookBack == 25

\* _is_abbrev_before
is_abbrev_before(text, punct_pos) ==
    LET start_scan == Max2(0, punct_pos - AbbrLookBack)
        chunk == Slice(text, start_scan, punct_pos)
        word == LastWord(chunk)
        word_no_dot == IF word # <<>> /\ word[Len(word)] = "."
                       THEN SubSeq(word, 1, Len(word) - 1) ELSE word
    IN  IF word = <<>> THEN FALSE
        ELSE IsAbbrWord(word) \/ IsAbbrWord(word_no_dot)

\* lines 81-96: the lines of the page's text blocks, each with its text
\* (stripped, NFKC) and its place in the page text; empty lines are left out
RECURSIVE PageLines(_, _)
PageLines(lines, cursor) ==
    IF lines = <<>> THEN <<>>
    ELSE LET t == line_text(Head(lines))
         IN  IF t = <<>> THEN PageLines(Tail(lines), cursor)
             ELSE LET n == NFKC(t)
                      box == line_bbox(Head(lines))
                  IN  <<[text |-> n, ls |-> cursor, le |-> cursor + Len(n),
                         x0 |-> box[1], y0 |-> box[2], x1 |-> box[3], y1 |-> box[4]]>>
                      \o PageLines(Tail(lines), cursor + Len(n) + 1)

\* the lines of every block that has lines, in order
RECURSIVE BlockLines(_)
BlockLines(blocks) ==
    IF blocks = <<>> THEN <<>>
    ELSE (IF Head(blocks).has_lines THEN Head(blocks).lines ELSE <<>>)
         \o BlockLines(Tail(blocks))

\* line_bboxes of the page
LineBoxes(page) == PageLines(BlockLines(page), 0)

\* page_text: every kept line followed by a newline
PageText(page) ==
    LET lb == LineBoxes(page)
    IN  Concat([k \in 1..Len(lb) |-> lb[k].text \o <<"\n">>])

\* the first offset >= p whose character is no whitespace, or len(text)
RECURSIVE SkipSpace(_, _)
SkipSpace(text, p) ==
    IF p < Len(text) /\ IsSpace(text[p + 1]) THEN SkipSpace(text, p + 1) ELSE p

\* _SENT_END_RE matches at p: [\.!?]\s+(?=[A-Z(“"'])
SentEndAt(text, p) ==
    /\ p < Len(text)
    /\ IsSentPunct(text[p + 1])
    /\ SkipSpace(text, p + 1) > p + 1
    /\ SkipSpace(text, p + 1) < Len(text)
    /\ IsStarter(text[SkipSpace(text, p + 1) + 1])

\* _SENT_END_RE.finditer(text), scanning from offset p: the matches as
\* (start, end), left to right, none overlapping
RECURSIVE FindIter(_, _)
FindIter(text, p) ==
    IF p >= Len(text) THEN <<>>
    ELSE IF SentEndAt(text, p)
         THEN <<[start |-> p, end |-> SkipSpace(text, p + 1)]>>
              \o FindIter(text, SkipSpace(text, p + 1))
         ELSE FindIter(text, p + 1)

\* faulty variant: only a line that lies wholly inside the span counts
bbox_for_span_Contained(line_bboxes, span_start, span_end) ==
    LET hit == {k \in 1..Len(line_bboxes) :
                   span_start <= line_bboxes[k].ls /\ line_bboxes[k].le <= span_end}
    IN  IF hit = {} THEN <<0, 0, 0, 0>>
        ELSE << MinOf({line_bboxes[k].x0 : k \in hit}),
                MinOf({line_bboxes[k].y0 : k \in hit}),
                MaxOf({line_bboxes[k].x1 : k \in hit}),
                MaxOf({line_bboxes[k].y1 : k \in hit}) >>

\* _bbox_for_span
bbox_for_span(line_bboxes, span_start, span_end) ==
    LET hit == {k \in 1..Len(line_bboxes) :
                   ~(span_end <= line_bboxes[k].ls \/ span_start >= line_bboxes[k].le)}
    IN  IF hit = {} THEN <<0, 0, 0, 0>>
        ELSE << MinOf({line_bboxes[k].x0 : k \in hit}),
                MinOf({line_bboxes[k].y0 : k \in hit}),
                MaxOf({line_bboxes[k].x1 : k \in hit}),
                MaxOf({line_bboxes[k].y1 : k \in hit}) >>

\* the decimal digits of n >= 0
RECURSIVE Digits(_)
Digits(n) ==
    IF n < 10 THEN <<DigitChars[n + 1]>>
    ELSE Append(Digits(n \div 10), DigitChars[(n % 10) + 1])

\* format(n, "0{w}d")
ZeroPad(n, w) ==
    LET d == Digits(n)
    IN  [k \in 1..Max2(0, w - Len(d)) |-> "0"] \o d

PageWidth == 3
IndexWidth == 5

\* faulty variant: the id leaves out the page
SentId_NoPage(page_no, local_idx) == <<"S">> \o ZeroPad(local_idx, IndexWidth)

\* f"S{pno+1:03d}-{local_idx:05d}"
SentId(page_no, local_idx) ==
    <<"S">> \o ZeroPad(page_no, PageWidth) \o <<"-">> \o ZeroPad(local_idx, IndexWidth)

\* faulty variant: add_span records the document-wide offsets as page offsets
add_span_GlobalOffsets(st, page_text, line_bboxes, page_index, cursor, span_start, span_end) ==
    LET chunk == StripText(Slice(page_text, span_start, span_end))
    IN  IF chunk = <<>> THEN st
        ELSE [local_idx |-> st.local_idx + 1,
              recs |-> Append(st.recs,
                 [id |-> SentId(page_index + 1, st.local_idx + 1),
                  page |-> page_index + 1,
                  text |-> chunk,
                  bbox |-> bbox_for_span(line_bboxes, span_start, span_end),
                  page_char_start |-> cursor + span_start,
                  page_char_end |-> cursor + span_end,
                  global_char_start |-> cursor + span_start,
                  global_char_end |-> cursor + span_end,
                  hash16 |-> hash16(norm_for_hash(chunk))])]

\* add_span: st is (recs, local_idx); an empty chunk adds nothing
add_span(st, page_text, line_bboxes, page_index, cursor, span_start, span_end) ==
    LET chunk == StripText(Slice(page_text, span_start, span_end))
    IN  IF chunk = <<>> THEN st
        ELSE [local_idx |-> st.local_idx + 1,
              recs |-> Append(st.recs,
                 [id |-> SentId(page_index + 1, st.local_idx + 1),
                  page |-> page_index + 1,
                  text |-> chunk,
                  bbox |-> bbox_for_span(line_bboxes, span_start, span_end),
                  page_char_start |-> span_start,
                  page_char_end |-> span_end,
                  global_char_start |-> cursor + span_start,
                  global_char_end |-> cursor + span_end,
                  hash16 |-> hash16(norm_for_hash(chunk))])]

\* lines 127-133: the loop over the matches; start is where the next
\* sentence begins
RECURSIVE SplitLoop(_, _, _, _, _, _, _)
SplitLoop(matches, start, st, page_text, line_bboxes, page_index, cursor) ==
    IF matches = <<>> THEN [start |-> start, st |-> st]
    ELSE LET m == Head(matches)
         IN  IF is_abbrev_before(page_text, m.start)
             THEN SplitLoop(Tail(matches), start, st, page_text, line_bboxes,
                            page_index, cursor)
             ELSE SplitLoop(Tail(matches), m.end,
                            add_span(st, page_text, line_bboxes, page_index, cursor,
                                     start, m.start + 1),
                            page_text, line_bboxes, page_index, cursor)

\* faulty variant: the document cursor stays where it was
iter_page_sentences_NoAdvance(d, page_index, cursor) ==
    LET line_bboxes == LineBoxes(d[page_index + 1])
        page_text == PageText(d[page_index + 1])
        page_len == Len(page_text)
        loop == SplitLoop(FindIter(page_text, 0), 0, [local_idx |-> 0, recs |-> <<>>],
                          page_text, line_bboxes, page_index, cursor)
        last == IF loop.start < page_len
                THEN add_span(loop.st, page_text, line_bboxes, page_index, cursor,
                              loop.start, page_len)
                ELSE loop.st
    IN  [recs |-> last.recs,
         new_global_cursor |-> cursor,
         page_text |-> page_text]

\* iter_page_sentences: (records, new_global_cursor, page_text)
iter_page_sentences(d, page_index, cursor) ==
    LET line_bboxes == LineBoxes(d[page_index + 1])
        page_text == PageText(d[page_index + 1])
        page_len == Len(page_text)
        loop == SplitLoop(FindIter(page_text, 0), 0, [local_idx |-> 0, recs |-> <<>>],
                          page_text, line_bboxes, page_index, cursor)
        last == IF loop.start < page_len
                THEN add_span(loop.st, page_text, line_bboxes, page_index, cursor,
                              loop.start, page_len)
                ELSE loop.st
    IN  [recs |-> last.recs,
         new_global_cursor |-> cursor + page_len + 2,
         page_text |-> page_text]

\* ------------------------------------------------------------------------
\* Inputs of the sentence indexer
\* ------------------------------------------------------------------------
\* the span texts a line of the model may have: "Dr. Ab. " + "Ab", where the
\* abbreviation holds back a split and "Ab. " makes one, and " b! ", which
\* starts in lower case and ends a sentence at the end of the line
LineTexts ==
    { << <<"D", "r", ".", " ", "A", "b", ".", " ">>, <<"A", "b">> >>,
      << <<" ", "b", "!", " ">> >> }

\* line k of a page: its spans side by side on row k
MkLine(texts, k) ==
    [spans |-> [i \in 1..Len(texts) |->
        LET x == IF i = 1 THEN 0 ELSE Len(texts[1])
        IN  [text |-> texts[i],
             bbox |-> <<x, 10 * k, x + Len(texts[i]), 10 * k + 8>>]]]

\* a page over the chosen lines: an image block, which has no lines, then a
\* text block that ends with a line of blanks
MkPage(choice) ==
    << [has_lines |-> FALSE, lines |-> <<>>],
       [has_lines |-> TRUE,
        lines |-> [k \in 1..Len(choice) |-> MkLine(choice[k], k)]
                  \o <<MkLine(<< <<" ", " ">> >>, Len(choice) + 1)>>] >>

PageChoices == UNION {[1..n -> LineTexts] : n \in 0..MaxLines}

DocChoices == UNION {[1..m -> PageChoices] : m \in 0..MaxPages}

MkDoc(choice) == [p \in 1..Len(choice) |-> MkPage(choice[p])]

\* ------------------------------------------------------------------------
\* run_extract.sentence_gen (src/src/extraction/cli.py) as a state machine
\* ------------------------------------------------------------------------
AdjIdle ==
    /\ raw_sentences = <<>>
    /\ sim = [t \in Texts |-> <<>>]
    /\ top_k = DefaultTopK
    /\ threshold = DefaultThreshold
    /\ pc = "idle"
    /\ top_queries = <<>>
    /\ ranked_queries = <<>>
    /\ qi = 1
    /\ llm_responses = <<>>
    /\ max_score = 0
    /\ any_yes = FALSE
    /\ calls = <<>>
    /\ error = "none"
    /\ result = <<>>

SentInit ==
    /\ AdjIdle
    /\ \E c \in DocChoices : doc = MkDoc(c)
    /\ pno = 0
    /\ global_cursor = 0
    /\ recs = <<>>
    /\ written = <<>>
    /\ spc = "gen"
    /\ DbIdle
    /\ HlIdle
    /\ ExtIdle

\* line 53: the next page goes through iter_page_sentences
IterPage ==
    /\ spc = "gen"
    /\ recs = <<>>
    /\ pno < Len(doc)
    /\ LET r == iter_page_sentences(doc, pno, global_cursor)
       IN  /\ recs' = r.recs
           /\ global_cursor' = r.new_global_cursor
    /\ pno' = pno + 1
    /\ UNCHANGED <<adjVars, dbVars, hlVars, extVars, doc, written, spc>>

\* lines 54-65: the next record of the page is yielded and written
Yield ==
    /\ spc = "gen"
    /\ recs # <<>>
    /\ written' = Append(written, Head(recs))
    /\ recs' = Tail(recs)
    /\ UNCHANGED <<adjVars, dbVars, hlVars, extVars, doc, pno, global_cursor, spc>>

\* line 52: no page is left, the generator ends
Close ==
    /\ spc = "gen"
    /\ recs = <<>>
    /\ pno = Len(doc)
    /\ spc' = "closed"
    /\ UNCHANGED <<adjVars, dbVars, hlVars, extVars, doc, pno, global_cursor, recs, written>>

SentNext ==
    \/ IterPage
    \/ Yield
    \/ Close

SpecSent == SentInit /\ [][SentNext]_vars

\* ------------------------------------------------------------------------
\* Claims on the sentence indexer
\* ------------------------------------------------------------------------
\* the characters of an identifier in code point order
IdCharOrder == <<"-">> \o DigitChars \o <<"S">>

CodeRank(c) == CHOOSE k \in 1..Len(IdCharOrder) : IdCharOrder[k] = c

\* a < b for two strings, as Python compares them
RECURSIVE StrLess(_, _)
StrLess(a, b) ==
    IF b = <<>> THEN FALSE
    ELSE IF a = <<>> THEN TRUE
    ELSE IF Head(a) = Head(b) THEN StrLess(Tail(a), Tail(b))
    ELSE CodeRank(Head(a)) < CodeRank(Head(b))

(* C10: the identifiers of the records a document yields are pairwise       *)
(* distinct, and of two records of the same page the later one has the      *)
(* greater identifier.                                                      *)
C10_IdsUniqueAndIncreasing ==
    LET all == written \o recs
    IN  \A i \in 1..Len(all) : \A j \in 1..Len(all) :
            i < j =>
                /\ all[i].id # all[j].id
                /\ all[i].page = all[j].page => StrLess(all[i].id, all[j].id)

\* a document of two pages with two sentences or more each is written out
C10_Witness ==
    /\ spc = "closed"
    /\ \E i \in 1..Len(written) : \E j \in 1..Len(written) :
          i < j /\ written[i].page = 1 /\ written[j].page = 1
    /\ \E i \in 1..Len(written) : \E j \in 1..Len(written) :
          i < j /\ written[i].page = 2 /\ written[j].page = 2

\* the reconstructed text of the page a record is on
PageTextOf(r) == PageText(doc[r.page])

\* every record generated so far: those written and those of the page in hand
Generated == written \o recs

(* C11: every generated record has page_char_start < page_char_end, and the *)
(* page text between the two offsets, normalized as for hashing, equals the *)
(* record's text normalized the same way.                                   *)
C11_SpanMatchesText ==
    \A i \in 1..Len(Generated) :
        LET r == Generated[i]
        IN  /\ r.page_char_start < r.page_char_end
            /\ r.page_char_end <= Len(PageTextOf(r))
            /\ norm_for_hash(Slice(PageTextOf(r), r.page_char_start, r.page_char_end))
                   = norm_for_hash(r.text)

\* a record of the second page is written whose span holds more than its
\* text: the span ends with the newline that strip() took off the text
C11_Witness ==
    \E i \in 1..Len(written) :
        LET r == written[i]
        IN  /\ r.page = 2
            /\ r.page_char_start > 0
            /\ Slice(PageTextOf(r), r.page_char_start, r.page_char_end) # r.text

(* C12: in generation order the offset ranges of a document's records are   *)
(* disjoint and strictly increasing: of two records of one page the later   *)
(* one starts, page-locally, at or after the end of the earlier one, and of *)
(* any two records the later one starts, globally, at or after the end of   *)
(* the earlier one; no range is empty.                                      *)
C12_RangesDisjointIncreasing ==
    \A i \in 1..Len(Generated) : \A j \in 1..Len(Generated) :
        i < j =>
            LET a == Generated[i]
                b == Generated[j]
            IN  /\ a.global_char_start < a.global_char_end
                /\ b.global_char_start < b.global_char_end
                /\ a.global_char_end <= b.global_char_start
                /\ a.page <= b.page
                /\ a.page = b.page =>
                      /\ a.page_char_start < a.page_char_end
                      /\ a.page_char_end <= b.page_char_start

\* two records of the first page and one of the second are written
C12_Witness ==
    \E i \in 1..Len(written) : \E j \in 1..Len(written) : \E k \in 1..Len(written) :
        /\ i < j /\ j < k
        /\ written[i].page = 1 /\ written[j].page = 1 /\ written[k].page = 2

\* ------------------------------------------------------------------------
\* The full-text export (text_extraction.py, cli.py, io_utils.py)
\* ------------------------------------------------------------------------
\* page.get_text("text"): the lines of the page's text blocks as they are,
\* each followed by a newline; nothing is stripped, normalized or left out
RECURSIVE RawLines(_)
RawLines(lines) ==
    IF lines = <<>> THEN <<>>
    ELSE Concat([k \in 1..Len(Head(lines).spans) |-> Head(lines).spans[k].text])
         \o <<"\n">> \o RawLines(Tail(lines))

\* extract_pages_text: the plain text of every page
extract_pages_text(d) == [p \in 1..Len(d) |-> RawLines(BlockLines(d[p]))]

\* "\n\n".join(pages)
RECURSIVE JoinPages(_)
JoinPages(pages) ==
    IF pages = <<>> THEN <<>>
    ELSE IF Len(pages) = 1 THEN pages[1]
    ELSE pages[1] \o <<"\n", "\n">> \o JoinPages(Tail(pages))

\* write_full_text: what ends up in <stem>.full.txt
write_full_text(pages) == JoinPages(pages)

(* C13: for every generated record the characters of the exported full text *)
(* between global_char_start and global_char_end are the characters of the  *)
(* record's page text between page_char_start and page_char_end.            *)
C13_GlobalOffsetsMatchExport ==
    \A i \in 1..Len(Generated) :
        LET r == Generated[i]
            fulltext == write_full_text(extract_pages_text(doc))
        IN  Slice(fulltext, r.global_char_start, r.global_char_end)
                = Slice(PageTextOf(r), r.page_char_start, r.page_char_end)

\* ------------------------------------------------------------------------
\* A corpus of documents for the text rules of the sentence indexer
\* ------------------------------------------------------------------------
\* str.upper() of one character
UpperChar(c) ==
    IF c \in Range(LowerChars)
    THEN UpperChars[CHOOSE k \in 1..26 : LowerChars[k] = c]
    ELSE c

Upper(s) == [k \in 1..Len(s) |-> UpperChar(s[k])]

\* the alternatives of _ABBR as they are written in the source
AbbrList ==
    << <<"M", "r">>, <<"M", "r", "s">>, <<"M", "s">>, <<"D", "r">>,
       <<"P", "r", "o", "f">>, <<"S", "r">>, <<"J", "r">>,
       <<"S", "t">>, <<"M", "t">>, <<"v", "s">>, <<"N", "o">>,
       <<"I", "n", "c">>, <<"L", "t", "d">>, <<"F", "i", "g">>,
       <<"E", "q">>, <<"R", "e", "f">>, <<"e", "t", " ", "a", "l">>,
       <<"i", ".", "e">>, <<"e", ".", "g">>, <<"c", "f">>,
       <<"P", "h", ".", "D">>, <<"M", ".", "S", "c">>,
       <<"U", ".", "S">>, <<"U", ".", "K">> >>

Casings == {"as written", "lower", "upper"}

Recase(s, casing) ==
    CASE casing = "lower" -> Lower(s)
      [] casing = "upper" -> Upper(s)
      [] OTHER -> s

\* a page of one line: a word, the abbreviation in the given casing with one
\* or two periods, and a new sentence
AbbrPage(k, casing, dots) ==
    MkPage(<< << <<"Z", " ">> \o Recase(AbbrList[k], casing)
                 \o [i \in 1..dots |-> "."] \o <<" ", "A", "b">> >> >>)

AbbrDocs ==
    { <<AbbrPage(k, casing, dots)>> :
          k \in 1..Len(AbbrList), casing \in Casings, dots \in 1..2 }

ScenarioText ==
    <<"T", "h", "e", " ", "a", "u", "t", "h", "o", "r", "s", " ", "t",
    "h", "a", "n", "k", " ", "D", "r", ".", " ", "S", "m", "i", "t",
    "h", " ", "f", "o", "r", " ", "h", "e", "l", "p", ".", " ", "T",
    "h", "i", "s", " ", "w", "o", "r", "k", " ", "u", "s", "e", "d",
    " ", "t", "h", "e", " ", "C", "M", "C", "A", " ", "e", "l", "e",
    "c", "t", "r", "o", "n", " ", "m", "i", "c", "r", "o", "s", "c",
    "o", "p", "e", " ", "f", "a", "c", "i", "l", "i", "t", "y", ".">>

\* the one-page document of the scenario
ScenarioDoc == <<MkPage(<< <<ScenarioText>> >>)>>

\* lines that differ in case, in whitespace and in compatibility characters
HashPages ==
    { MkPage(<< << <<"A", "b", " ", "c", "d">> >> >>),
      MkPage(<< << <<"A", "B", " ", " ", "c", "d">> >> >>),
      MkPage(<< << <<"a", "b", "nbsp", "c", "d">> >> >>),
      MkPage(<< << <<"A", "b">> >>, << <<"c", "d">> >> >>),
      MkPage(<< << <<"f", "i", "t">> >> >>),
      MkPage(<< << <<"fi-ligature", "T">> >> >>),
      MkPage(<< << <<"H", "macron-below">> >> >>),
      MkPage(<< << <<"h-macron-below">> >> >>) }

HashDocs == { <<p, q>> : p \in HashPages, q \in HashPages }

\* run_extract.sentence_gen on a document of the given set
CorpusInit(docs) ==
    /\ AdjIdle
    /\ doc \in docs
    /\ pno = 0
    /\ global_cursor = 0
    /\ recs = <<>>
    /\ written = <<>>
    /\ spc = "gen"
    /\ DbIdle
    /\ HlIdle
    /\ ExtIdle

AbbrInit == CorpusInit(AbbrDocs \cup {ScenarioDoc})

SpecAbbr == AbbrInit /\ [][SentNext]_vars

HashInit == CorpusInit(HashDocs)

SpecHash == HashInit /\ [][SentNext]_vars

\* chunk ends with the word w, in any case, as a token of its own
EndsWithWord(chunk, w) ==
    /\ Len(chunk) >= Len(w)
    /\ Lower(SubSeq(chunk, Len(chunk) - Len(w) + 1, Len(chunk))) = w
    /\ Len(chunk) > Len(w) => ~IsWordChar(chunk[Len(chunk) - Len(w)])

\* the token that ends at offset p of the text is an abbreviation of the
\* set, with or without a period of its own
AbbrevPrecedes(text, p) ==
    LET chunk == Slice(text, 0, p)
        nodot == IF chunk # <<>> /\ chunk[Len(chunk)] = "."
                 THEN SubSeq(chunk, 1, Len(chunk) - 1) ELSE chunk
    IN  \E w \in AbbrWords : EndsWithWord(chunk, w) \/ EndsWithWord(nodot, w)

\* the text ends with the given characters
EndsWith(text, tail) ==
    /\ Len(text) >= Len(tail)
    /\ SubSeq(text, Len(text) - Len(tail) + 1, Len(text)) = tail

(* C14: no record ends at a candidate boundary whose preceding token is an  *)
(* abbreviation of the set, in any case, with or without a period of its    *)
(* own, "et al" included; and the scenario text is written out as exactly   *)
(* two sentences, S001-00001 ending with "help." and S001-00002.            *)
C14_AbbreviationsSuppressSplit ==
    /\ \A i \in 1..Len(Generated) :
          LET r == Generated[i]
              p == r.page_char_end - 1
          IN  ~(SentEndAt(PageTextOf(r), p) /\ AbbrevPrecedes(PageTextOf(r), p))
    /\ (doc = ScenarioDoc /\ spc = "closed") =>
          /\ Len(written) = 2
          /\ written[1].id = SentId(1, 1)
          /\ EndsWith(written[1].text, <<"h", "e", "l", "p", ".">>)
          /\ written[2].id = SentId(1, 2)

(* C15: two generated records whose texts are equal after NFKC              *)
(* normalization, whitespace collapse and lowercasing have the same hash16, *)
(* and normalizing a record's normalized text again changes nothing.        *)
C15_HashDependsOnNormalizedText ==
    /\ \A i \in 1..Len(Generated) : \A j \in 1..Len(Generated) :
          norm_for_hash(Generated[i].text) = norm_for_hash(Generated[j].text)
              => Generated[i].hash16 = Generated[j].hash16
    /\ \A i \in 1..Len(Generated) :
          norm_for_hash(norm_for_hash(Generated[i].text))
              = norm_for_hash(Generated[i].text)

\* ========================================================================
\* The vector store (src/pgvector_db.py)
\* ========================================================================
\* Python's None, SQL's NULL, for a text, a vector and a dict; a value that
\* is there is wrapped by Some
NoText == [null |-> TRUE, v |-> ""]
NoVector == [null |-> TRUE, v |-> <<>>]
NoDict == [null |-> TRUE, v |-> [dict |-> {}]]
NoList == [null |-> TRUE, v |-> <<>>]
Some(x) == [null |-> FALSE, v |-> x]

\* sum(x * y for x, y in zip(a, b)): zip stops at the shorter vector
RECURSIVE ZipDot(_, _)
ZipDot(a, b) ==
    IF a = <<>> \/ b = <<>> THEN 0
    ELSE Head(a) * Head(b) + ZipDot(Tail(a), Tail(b))

\* sum(x * x for x in a)
RECURSIVE SumSq(_)
SumSq(a) == IF a = <<>> THEN 0 ELSE Head(a) * Head(a) + SumSq(Tail(a))

\* _cosine_similarity: the value num / sqrt(den2), kept exact
cosine_similarity(a, b) ==
    LET dot_product == ZipDot(a, b)
        magnitude_a2 == SumSq(a)
        magnitude_b2 == SumSq(b)
    IN  IF magnitude_a2 = 0 \/ magnitude_b2 = 0
        THEN [num |-> 0, den2 |-> 1]
        ELSE [num |-> dot_product, den2 |-> magnitude_a2 * magnitude_b2]

\* x < y for two similarities
SimLess(x, y) ==
    IF x.num < 0 /\ y.num >= 0 THEN TRUE
    ELSE IF x.num >= 0 /\ y.num < 0 THEN FALSE
    ELSE IF x.num >= 0
         THEN x.num * x.num * y.den2 < y.num * y.num * x.den2
         ELSE x.num * x.num * y.den2 > y.num * y.num * x.den2

\* 1 - similarity
Distance(s) == [one_minus |-> s]

\* d < e for two distances
DistLess(d, e) == SimLess(e.one_minus, d.one_minus)

\* faulty variant: the sort is ascending
RECURSIVE SimInsertDesc_Ascending(_, _)
SimInsertDesc_Ascending(sorted, e) ==
    IF sorted = <<>> THEN <<e>>
    ELSE IF SimLess(e.similarity, Head(sorted).similarity)
         THEN <<e>> \o sorted
         ELSE <<Head(sorted)>> \o SimInsertDesc_Ascending(Tail(sorted), e)

\* one step of the stable descending sort: e goes behind every element that
\* is not smaller
RECURSIVE SimInsertDesc(_, _)
SimInsertDesc(sorted, e) ==
    IF sorted = <<>> THEN <<e>>
    ELSE IF SimLess(Head(sorted).similarity, e.similarity)
         THEN <<e>> \o sorted
         ELSE <<Head(sorted)>> \o SimInsertDesc(Tail(sorted), e)

\* similarities.sort(key=lambda x: x[3], reverse=True)
RECURSIVE SortBySimilarity(_)
SortBySimilarity(s) ==
    IF s = <<>> THEN <<>>
    ELSE SimInsertDesc(SortBySimilarity(SubSeq(s, 1, Len(s) - 1)), s[Len(s)])

\* ------------------------------------------------------------------------
\* Inputs of the vector store
\* ------------------------------------------------------------------------
DefaultNResults == 5

\* a dict is tagged as one: the metadata {"source": "test"} and the empty dict
MetaTest == [dict |-> {<<"source", "test">>}]
EmptyDict == [dict |-> {}]
NoJson == [null |-> TRUE, v |-> [json |-> {}]]

\* the add_with_embeddings calls of the model: a first add; a re-add that
\* leaves the document out; a batch with a short documents list that gives
\* i1 a vector of another dimension; a batch that names one id twice; an add
\* without embeddings; and calls without ids
AddCalls ==
    { [ids |-> Some(<<"i1">>), documents |-> Some(<<"d1">>),
       embeddings |-> Some(<< <<1, 0>> >>), metadatas |-> NoList],
      [ids |-> Some(<<"i1">>), documents |-> NoList,
       embeddings |-> Some(<< <<0, 1>> >>), metadatas |-> Some(<<MetaTest>>)],
      [ids |-> Some(<<"i2", "i1">>), documents |-> Some(<<"d2">>),
       embeddings |-> Some(<< <<1, 1>>, <<1>> >>), metadatas |-> NoList],
      [ids |-> Some(<<"i2", "i2">>), documents |-> Some(<<"d1", "d2">>),
       embeddings |-> Some(<< <<-1, 0>>, <<2, 1>> >>),
       metadatas |-> Some(<<EmptyDict>>)],
      [ids |-> Some(<<"i2">>), documents |-> Some(<<"d1">>),
       embeddings |-> NoList, metadatas |-> NoList],
      [ids |-> Some(<<>>), documents |-> Some(<<"d1">>),
       embeddings |-> Some(<< <<1, 0>> >>), metadatas |-> NoList],
      [ids |-> NoList, documents |-> Some(<<"d1">>),
       embeddings |-> Some(<< <<1, 0>> >>), metadatas |-> NoList] }

ItemIds == {"i1", "i2"}

\* query_embeddings of the model: none, one vector, two vectors
QueryEmbeddings == { <<>>, << <<1, 0>> >>, << <<0, 1>>, <<1, 0>> >> }

NResults == {-1, 0, 1, DefaultNResults}

\* the where argument: None, an empty dict, one condition
Wheres == {NoDict, Some(EmptyDict), Some(MetaTest)}

\* ------------------------------------------------------------------------
\* The operations
\* ------------------------------------------------------------------------
\* how a call ended: the state before any call
NoCall ==
    [op |-> "none", status |-> "ok", error |-> "", n_results |-> 0,
     query |-> <<>>, scored |-> <<>>, ids |-> <<>>, documents |-> <<>>,
     metadatas |-> <<>>, distances |-> <<>>, count |-> 0]

Raised(op, e) == [NoCall EXCEPT !.op = op, !.status = "raised", !.error = e]

\* lst[i] if lst and i < len(lst) else None, for a 0-based i
ItemAt(lst, i, none) ==
    IF ~lst.null /\ lst.v # <<>> /\ i < Len(lst.v) THEN Some(lst.v[i + 1]) ELSE none

\* json.dumps of a dict, and what psycopg2 hands back for a JSONB column:
\* the decoded value, not the string
json_dumps(m) == [json |-> m.dict]
jsonb_read(j) == [dict |-> j.json]

\* json.loads takes a string; given a dict it raises TypeError
json_loads_accepts(x) == "json" \in DOMAIN x

\* lines 143-148: the tuples of the batch
BatchData(call) ==
    [i \in 1..Len(call.ids.v) |->
        LET meta == ItemAt(call.metadatas, i - 1, NoDict)
        IN  [id |-> call.ids.v[i],
             document |-> ItemAt(call.documents, i - 1, NoText),
             metadata |-> IF meta.null THEN NoJson ELSE Some(json_dumps(meta.v)),
             embedding |-> ItemAt(call.embeddings, i - 1, NoVector)]]

\* faulty variant: DO UPDATE SET names the embedding only
Upsert_EmbeddingOnly(rows, item) ==
    IF \E k \in 1..Len(rows) : rows[k].id = item.id
    THEN [k \in 1..Len(rows) |->
            IF rows[k].id # item.id THEN rows[k]
            ELSE [rows[k] EXCEPT !.embedding = item.embedding]]
    ELSE Append(rows, item)

\* faulty variant: an update keeps the old value where the new one is NULL
Upsert_KeepsOld(rows, item) ==
    IF \E k \in 1..Len(rows) : rows[k].id = item.id
    THEN [k \in 1..Len(rows) |->
            IF rows[k].id # item.id THEN rows[k]
            ELSE [id |-> item.id,
                  document |-> IF item.document.null THEN rows[k].document
                               ELSE item.document,
                  metadata |-> IF item.metadata.null THEN rows[k].metadata
                               ELSE item.metadata,
                  embedding |-> IF item.embedding.null THEN rows[k].embedding
                                ELSE item.embedding]]
    ELSE Append(rows, item)

\* INSERT ... ON CONFLICT (id) DO UPDATE SET document, metadata, embedding
Upsert(rows, item) ==
    IF \E k \in 1..Len(rows) : rows[k].id = item.id
    THEN [k \in 1..Len(rows) |-> IF rows[k].id = item.id THEN item ELSE rows[k]]
    ELSE Append(rows, item)

\* cur.executemany: one statement per tuple, in order
RECURSIVE ExecuteMany(_, _)
ExecuteMany(rows, data) ==
    IF data = <<>> THEN rows
    ELSE ExecuteMany(Upsert(rows, Head(data)), Tail(data))

\* the fields of the last tuple of the batch that names the id
RECURSIVE LastNamed(_, _, _)
LastNamed(data, id, before) ==
    IF data = <<>> THEN before
    ELSE LastNamed(Tail(data), id,
                   IF Head(data).id = id THEN Some(Head(data)) ELSE before)

NeverAdded == [null |-> TRUE, v |-> [id |-> "", document |-> NoText,
                                     metadata |-> NoJson, embedding |-> NoVector]]

\* the adjudication stage and the sentence indexer are not running
OthersIdle ==
    /\ AdjIdle
    /\ doc = <<>>
    /\ pno = 0
    /\ global_cursor = 0
    /\ recs = <<>>
    /\ written = <<>>
    /\ spc = "closed"

DbInit ==
    /\ OthersIdle
    /\ HlIdle
    /\ ExtIdle
    /\ db_exists = FALSE
    /\ db_rows = <<>>
    /\ last_add = [i \in ItemIds |-> NeverAdded]
    /\ db_out = NoCall

\* create_collection: CREATE TABLE IF NOT EXISTS
CreateCollection ==
    /\ db_exists' = TRUE
    /\ db_out' = [NoCall EXCEPT !.op = "create_collection"]
    /\ UNCHANGED <<adjVars, sentVars, hlVars, extVars, db_rows, last_add>>

\* delete_collection: DROP TABLE IF EXISTS
DeleteCollection ==
    /\ db_exists' = FALSE
    /\ db_rows' = <<>>
    /\ last_add' = [i \in ItemIds |-> NeverAdded]
    /\ db_out' = [NoCall EXCEPT !.op = "delete_collection"]
    /\ UNCHANGED <<adjVars, sentVars, hlVars, extVars>>

\* count: SELECT COUNT(*)
Count ==
    /\ db_out' = IF db_exists
                 THEN [NoCall EXCEPT !.op = "count", !.count = Len(db_rows)]
                 ELSE Raised("count", "UndefinedTable")
    /\ UNCHANGED <<adjVars, sentVars, hlVars, extVars, db_exists, db_rows, last_add>>

\* add_with_embeddings; an exception rolls the transaction back
Add(call) ==
    /\ IF call.ids.null \/ call.ids.v = <<>>
       THEN /\ db_out' = Raised("add", "ValueError")
            /\ UNCHANGED <<db_rows, last_add>>
       ELSE IF ~db_exists
       THEN /\ db_out' = Raised("add", "UndefinedTable")
            /\ UNCHANGED <<db_rows, last_add>>
       ELSE LET data == BatchData(call)
            IN  /\ db_rows' = ExecuteMany(db_rows, data)
                /\ last_add' = [i \in ItemIds |-> LastNamed(data, i, last_add[i])]
                /\ db_out' = [NoCall EXCEPT !.op = "add"]
    /\ UNCHANGED <<adjVars, sentVars, hlVars, extVars, db_exists>>

\* cursor.execute(query, params) of psycopg2: the parameters are merged into
\* the query only when it has a placeholder, and then as many parameters as
\* placeholders are needed
ExecuteAccepts(placeholders, params) == placeholders = 0 \/ placeholders = params

\* a dict or a string that is empty, or None, is false
Truthy(x) == ~x.null /\ (IF "dict" \in DOMAIN x.v THEN x.v.dict # {} ELSE TRUE)

\* the orders in which a SELECT without ORDER BY may give n rows
Perms(n) == {f \in [1..n -> 1..n] : \A i \in 1..n : \A j \in 1..n : f[i] = f[j] => i = j}

\* lines 210-212: the loop stops with a TypeError at the first row whose
\* embedding is NULL
RECURSIVE Scored(_, _)
Scored(query_vector, results) ==
    IF results = <<>> \/ Head(results).embedding.null THEN <<>>
    ELSE <<[id |-> Head(results).id,
            document |-> Head(results).document,
            metadata |-> IF Head(results).metadata.null THEN NoDict
                         ELSE Some(jsonb_read(Head(results).metadata.v)),
            similarity |-> cosine_similarity(query_vector, Head(results).embedding.v)]>>
         \o Scored(query_vector, Tail(results))

\* query_by_vector
QueryByVector(query_embeddings, n_results, where, order) ==
    LET conditions == IF Truthy(where) THEN Cardinality(where.v.dict) ELSE 0
        results == [k \in 1..Len(db_rows) |-> db_rows[order[k]]]
        query_vector == query_embeddings[1]
        similarities == Scored(query_vector, results)
        top_results == Take(SortBySimilarity(similarities), n_results)
        out == [NoCall EXCEPT !.op = "query", !.n_results = n_results,
                              !.query = query_embeddings]
    IN  /\ db_out' =
              IF query_embeddings = <<>> THEN out
              ELSE IF ~ExecuteAccepts(conditions, 2 + conditions)
              THEN [out EXCEPT !.status = "raised", !.error = "ProgrammingError"]
              ELSE IF ~db_exists
              THEN [out EXCEPT !.status = "raised", !.error = "UndefinedTable"]
              ELSE IF Len(similarities) < Len(results)
              THEN [out EXCEPT !.status = "raised", !.error = "TypeError",
                               !.scored = similarities]
              ELSE IF \E k \in 1..Len(top_results) :
                          /\ Truthy(top_results[k].metadata)
                          /\ ~json_loads_accepts(top_results[k].metadata.v)
              THEN [out EXCEPT !.status = "raised", !.error = "TypeError",
                               !.scored = similarities]
              ELSE [out EXCEPT
                      !.scored = similarities,
                      !.ids = <<[k \in 1..Len(top_results) |-> top_results[k].id]>>,
                      !.documents =
                          <<[k \in 1..Len(top_results) |-> top_results[k].document]>>,
                      !.metadatas =
                          <<[k \in 1..Len(top_results) |-> EmptyDict]>>,
                      !.distances =
                          <<[k \in 1..Len(top_results) |->
                                Distance(top_results[k].similarity)]>>]
       /\ UNCHANGED <<adjVars, sentVars, hlVars, extVars, db_exists, db_rows, last_add>>

DbNext ==
    \/ CreateCollection
    \/ DeleteCollection
    \/ Count
    \/ \E call \in AddCalls : Add(call)
    \/ \E q \in QueryEmbeddings : \E k \in NResults : \E w \in Wheres :
          \E order \in Perms(Len(db_rows)) : QueryByVector(q, k, w, order)

SpecDB == DbInit /\ [][DbNext]_vars

\* ------------------------------------------------------------------------
\* Claims on the vector store
\* ------------------------------------------------------------------------
\* the last call was a query that returned
QueryReturned == db_out.op = "query" /\ db_out.status = "ok"

\* the stored row of an id
RowOf(id) == db_rows[CHOOSE k \in 1..Len(db_rows) : db_rows[k].id = id]

(* C16: a query that returns gives at most k results (none for k <= 0), and *)
(* the returned distances never decrease from one result to the next, that  *)
(* is, the similarities never increase.                                     *)
C16_AtMostKDescending ==
    QueryReturned =>
        \A r \in 1..Len(db_out.ids) :
            /\ Len(db_out.ids[r]) <= Max2(db_out.n_results, 0)
            /\ Len(db_out.distances[r]) = Len(db_out.ids[r])
            /\ \A i \in 1..Len(db_out.distances[r]) :
                  \A j \in 1..Len(db_out.distances[r]) :
                      i < j => ~DistLess(db_out.distances[r][j], db_out.distances[r][i])

(* C17: while the table exists it holds exactly one row per id that was     *)
(* added, no two rows share an id, and the document, metadata and vector of *)
(* a row are those of the last add that named its id, a field left out by   *)
(* that add being NULL; and an add that names only ids the table already    *)
(* holds leaves the number of rows unchanged.                               *)
C17_RowsAreLastAdds ==
    db_exists =>
        /\ \A i \in 1..Len(db_rows) : \A j \in 1..Len(db_rows) :
              db_rows[i].id = db_rows[j].id => i = j
        /\ \A i \in 1..Len(db_rows) : last_add[db_rows[i].id] = Some(db_rows[i])
        /\ \A id \in ItemIds :
              ~last_add[id].null => \E i \in 1..Len(db_rows) : db_rows[i].id = id

C17_ReAddKeepsCount ==
    \A call \in AddCalls :
        (/\ Add(call)
         /\ db_out'.status = "ok"
         /\ \A k \in 1..Len(call.ids.v) :
               \E i \in 1..Len(db_rows) : db_rows[i].id = call.ids.v[k])
        => Len(db_rows') = Len(db_rows)

C17_UpsertSemantics == [](C17_RowsAreLastAdds) /\ [][C17_ReAddKeepsCount]_vars

\* both ids are stored, and i2 was named twice by one batch: its row has the
\* document and the vector of the second tuple and no metadata, although the
\* first tuple had some
C17_Witness ==
    /\ db_exists
    /\ db_out.op = "add"
    /\ Len(db_rows) = 2
    /\ \E i \in 1..Len(db_rows) :
          /\ db_rows[i].id = "i2"
          /\ db_rows[i].document = Some("d2")
          /\ db_rows[i].embedding = Some(<<2, 1>>)
          /\ db_rows[i].metadata.null

(* C18: no similarity is computed from a query vector and a stored vector   *)
(* of different dimensions, and a query of a collection that stores a       *)
(* vector whose dimension differs from the query's ends in an error.        *)
C18_DimensionMismatchIsError ==
    (db_out.op = "query" /\ db_out.query # <<>>) =>
        /\ \A k \in 1..Len(db_out.scored) :
              Len(RowOf(db_out.scored[k].id).embedding.v) = Len(db_out.query[1])
        /\ (\E i \in 1..Len(db_rows) :
               /\ ~db_rows[i].embedding.null
               /\ Len(db_rows[i].embedding.v) # Len(db_out.query[1]))
           => db_out.status = "raised"

\* ========================================================================
\* The annotation stage (src/src/backend/app/services/highlight_service.py)
\* ========================================================================
\* A PDF is what its bytes encode: whether fitz can open them, per page the
\* rectangles at which search_for finds a text, and the highlight
\* annotations; resaved tells the bytes doc.save wrote from the bytes given.
MaxOutputs == 2

\* page 1 shows "ta" in two places, page 2 shows "tb" in one
PdfPages ==
    << { [text |-> <<"ta">>, rects |-> <<"r1", "r2">>] },
       { [text |-> <<"tb">>, rects |-> <<"r3">>] } >>

PdfInputs ==
    { [valid |-> TRUE, pages |-> PdfPages, annots |-> <<>>, resaved |-> FALSE],
      [valid |-> FALSE, pages |-> <<>>, annots |-> <<>>, resaved |-> FALSE] }

\* the sentence records: one found twice on its page, one found once, one
\* whose text is not on its page, one whose page the PDF does not have
SentencePool ==
    << [id |-> "S1", page |-> 1, text |-> <<" ", "ta", " ">>],
       [id |-> "S2", page |-> 2, text |-> <<"tb">>],
       [id |-> "S3", page |-> 1, text |-> <<"tx">>],
       [id |-> "S4", page |-> 3, text |-> <<"ta">>] >>

SentenceInputs == {SentencePool, SubSeq(SentencePool, 2, 3)}

\* the adjudication records: any sentence of the pool or an id no sentence
\* has, with any of the answers
OutputPool ==
    { [sentence_id |-> sid, llm_response |-> c] :
          sid \in {"S1", "S2", "S3", "S4", "S9"}, c \in Contents }

OutputInputs == UNION { [1..n -> OutputPool] : n \in 0..MaxOutputs }

\* sent_lookup.get(sid): the last sentence with the id, if any
HasSentence(sid) == \E k \in 1..Len(sentences) : sentences[k].id = sid

sent_lookup(sid) ==
    sentences[CHOOSE k \in 1..Len(sentences) :
                 /\ sentences[k].id = sid
                 /\ \A j \in (k + 1)..Len(sentences) : sentences[j].id # sid]

\* lines 24-28: the ids whose answer, stripped, starts with "Answer: Yes"
RECURSIVE YesIds(_)
YesIds(outputs) ==
    IF outputs = <<>> THEN <<>>
    ELSE (IF StartsWith(Strip(Head(outputs).llm_response), AnswerYes)
          THEN <<Head(outputs).sentence_id>> ELSE <<>>)
         \o YesIds(Tail(outputs))

\* doc[page_index] exists
PageExists(d, page_index) == page_index >= -Len(d.pages) /\ page_index < Len(d.pages)

\* doc[page_index], a negative index counting from the end
PageAt(d, page_index) ==
    IF page_index >= 0 THEN page_index + 1 ELSE Len(d.pages) + page_index + 1

\* page.search_for(text): the rectangles where the page shows the text
search_for(d, page_no, text) ==
    IF \E e \in d.pages[page_no] : e.text = text
    THEN (CHOOSE e \in d.pages[page_no] : e.text = text).rects
    ELSE <<>>

HlInit ==
    /\ OthersIdle
    /\ DbIdle
    /\ ExtIdle
    /\ pdf_bytes \in PdfInputs
    /\ sentences \in SentenceInputs
    /\ llm_outputs \in OutputInputs
    /\ hpc = "start"
    /\ yes_ids = <<>>
    /\ hk = 1
    /\ hdoc = <<>>
    /\ hret = <<>>

hlFrame == <<adjVars, sentVars, dbVars, extVars, pdf_bytes, sentences, llm_outputs>>

\* lines 24-31: nothing is positive, the bytes given are returned
NoPositives ==
    /\ hpc = "start"
    /\ YesIds(llm_outputs) = <<>>
    /\ hret' = <<pdf_bytes>>
    /\ hpc' = "done"
    /\ UNCHANGED <<hlFrame, yes_ids, hk, hdoc>>

\* lines 24-29: some record is positive
Filter ==
    /\ hpc = "start"
    /\ YesIds(llm_outputs) # <<>>
    /\ yes_ids' = YesIds(llm_outputs)
    /\ hpc' = "open"
    /\ UNCHANGED <<hlFrame, hk, hdoc, hret>>

\* line 34: fitz.open
Open ==
    /\ hpc = "open"
    /\ pdf_bytes.valid
    /\ hdoc' = <<pdf_bytes>>
    /\ hpc' = "loop"
    /\ UNCHANGED <<hlFrame, yes_ids, hk, hret>>

\* line 34: fitz.open raises on bytes that are no PDF; nothing catches it
OpenFails ==
    /\ hpc = "open"
    /\ ~pdf_bytes.valid
    /\ hpc' = "open_failed"
    /\ UNCHANGED <<hlFrame, yes_ids, hk, hdoc, hret>>

\* faulty variant: the lookup is sent_lookup[sid], which raises for an id
\* that is not there
SkipMissing_Raises ==
    /\ hpc = "loop"
    /\ hk <= Len(yes_ids)
    /\ ~HasSentence(yes_ids[hk])
    /\ hpc' = "index_failed"
    /\ UNCHANGED <<hlFrame, yes_ids, hk, hdoc, hret>>

\* lines 37-40: the id is not in the lookup
SkipMissing ==
    /\ hpc = "loop"
    /\ hk <= Len(yes_ids)
    /\ ~HasSentence(yes_ids[hk])
    /\ hk' = hk + 1
    /\ UNCHANGED <<hlFrame, hpc, yes_ids, hdoc, hret>>

\* line 45: doc[page_index] raises for a page the document does not have
PageFails ==
    /\ hpc = "loop"
    /\ hk <= Len(yes_ids)
    /\ HasSentence(yes_ids[hk])
    /\ ~PageExists(hdoc[1], sent_lookup(yes_ids[hk]).page - 1)
    /\ hpc' = "index_failed"
    /\ UNCHANGED <<hlFrame, yes_ids, hk, hdoc, hret>>

\* lines 46-49: the text is not found on the page
SkipNotFound ==
    /\ hpc = "loop"
    /\ hk <= Len(yes_ids)
    /\ HasSentence(yes_ids[hk])
    /\ LET s == sent_lookup(yes_ids[hk])
       IN  /\ PageExists(hdoc[1], s.page - 1)
           /\ search_for(hdoc[1], PageAt(hdoc[1], s.page - 1), Strip(s.text)) = <<>>
    /\ hk' = hk + 1
    /\ UNCHANGED <<hlFrame, hpc, yes_ids, hdoc, hret>>

\* lines 51-54: every match gets a highlight annotation
Highlight ==
    /\ hpc = "loop"
    /\ hk <= Len(yes_ids)
    /\ HasSentence(yes_ids[hk])
    /\ LET s == sent_lookup(yes_ids[hk])
           page_no == PageAt(hdoc[1], s.page - 1)
           matches == search_for(hdoc[1], page_no, Strip(s.text))
       IN  /\ PageExists(hdoc[1], s.page - 1)
           /\ matches # <<>>
           /\ hdoc' = <<[hdoc[1] EXCEPT !.annots = @ \o
                  [k \in 1..Len(matches) |->
                      [page |-> page_no, rect |-> matches[k], sid |-> yes_ids[hk]]]]>>
    /\ hk' = hk + 1
    /\ UNCHANGED <<hlFrame, hpc, yes_ids, hret>>

\* lines 57-59: the document is saved to new bytes, which are returned
Save ==
    /\ hpc = "loop"
    /\ hk > Len(yes_ids)
    /\ hret' = <<[hdoc[1] EXCEPT !.resaved = TRUE]>>
    /\ hpc' = "done"
    /\ UNCHANGED <<hlFrame, yes_ids, hk, hdoc>>

HlNext ==
    \/ NoPositives
    \/ Filter
    \/ Open
    \/ OpenFails
    \/ SkipMissing
    \/ PageFails
    \/ SkipNotFound
    \/ Highlight
    \/ Save

SpecHl == HlInit /\ [][HlNext]_vars

\* ------------------------------------------------------------------------
\* Claims on the annotation stage
\* ------------------------------------------------------------------------
\* a positive id that the stage has to skip: no sentence has it, or its text
\* is not on its page
Skippable(sid) ==
    \/ ~HasSentence(sid)
    \/ /\ PageExists(pdf_bytes, sent_lookup(sid).page - 1)
       /\ search_for(pdf_bytes, PageAt(pdf_bytes, sent_lookup(sid).page - 1),
                     Strip(sent_lookup(sid).text)) = <<>>

\* a positive id whose text is found on its page
Found(sid) ==
    /\ HasSentence(sid)
    /\ PageExists(pdf_bytes, sent_lookup(sid).page - 1)
    /\ ~Skippable(sid)

\* the highlights the positives call for, in order: one for every place
\* the text of a found id is at, none for any other id
RECURSIVE ExpectedAnnots(_)
ExpectedAnnots(ids) ==
    IF ids = <<>> THEN <<>>
    ELSE IF ~Found(Head(ids)) THEN ExpectedAnnots(Tail(ids))
    ELSE LET s == sent_lookup(Head(ids))
             page_no == PageAt(pdf_bytes, s.page - 1)
             matches == search_for(pdf_bytes, page_no, Strip(s.text))
         IN  [k \in 1..Len(matches) |->
                 [page |-> page_no, rect |-> matches[k], sid |-> Head(ids)]]
             \o ExpectedAnnots(Tail(ids))

(* C19: a positive sentence whose id no sentence record has, or whose text  *)
(* is not found on its page, never makes the stage raise and gets no        *)
(* annotation; the stage goes on, and the PDF it returns has the highlights *)
(* of every positive sentence that is found, in whatever order the          *)
(* positives come.                                                          *)
C19_SkipsAreHarmless ==
    /\ hpc = "index_failed" => ~Skippable(yes_ids[hk])
    /\ hpc = "open_failed" => ~pdf_bytes.valid
    /\ hpc = "loop" =>
          hdoc[1].annots = ExpectedAnnots(SubSeq(yes_ids, 1, hk - 1))
    /\ (hpc = "done" /\ yes_ids # <<>>) =>
          /\ hret[1].annots = ExpectedAnnots(yes_ids)
          /\ \A a \in 1..Len(hret[1].annots) : ~Skippable(hret[1].annots[a].sid)

\* the stage has returned; the first positive was skipped, its text not
\* being on its page, the second was found, and both its places are
\* highlighted
C19_Witness ==
    /\ hpc = "done"
    /\ Len(yes_ids) = 2
    /\ yes_ids[1] = "S3" /\ HasSentence("S3")
    /\ yes_ids[2] = "S1" /\ Found("S1")
    /\ Len(hret[1].annots) = 2

(* C20: when opening the PDF or indexing a recorded page throws, the stage  *)
(* returns the bytes it was given.                                          *)
C20_FailureReturnsOriginal ==
    hpc \in {"open_failed", "index_failed"} => hret = <<pdf_bytes>>


\* =====================================================================
\* Ingestion: PdfService.ingest
\* (src/src/backend/app/services/pdf_service.py) and PdfRepo.create
\* (src/src/backend/app/repositories/pdf_repo.py)
\* =====================================================================

\* the number of ingest calls a behaviour makes
MaxUploads == 3

\* Python None, and SQL NULL in a nullable column
None == "None"

\* the doi form field of the upload, and the doi the extractor finds
OverrideDois == {None, "d1"}

ExtractorDois == {None, "d1", "d2"}

\* what extract_api may return: the keys ingest reads that matter here
ExtractorJsons == {[doi |-> d, num_pages |-> 1] : d \in ExtractorDois}

\* a or b, for a and b that are None or a non-empty string
OrElse(a, b) == IF a = None THEN b ELSE a

\* lines 63-64: uuid4 gives every call a name no earlier call had; the
\* name is the ordinal of the call
storage_path == Len(ing_log) + 1

\* models/pdf.py line 16: doi is unique, and NULL never conflicts
DoiIsFree(doi) == doi = None \/ \A j \in 1..Len(pdfs) : pdfs[j].doi # doi

\* lines 72-79 and 87-100: the values handed to PdfRepo.create. The
\* keywords cosine_similarity and cmca_result are commented out (lines
\* 97-98), so the row gets the columns' NULL.
PdfValues(req) ==
    [pdf_id            |-> Len(pdfs) + 1,
     doi               |-> OrElse(req.overrides_doi, req.extractor_json[1].doi),
     num_pages         |-> req.extractor_json[1].num_pages,
     cosine_similarity |-> None,
     cmca_result       |-> None,
     storage_path      |-> req.path]

IngInit ==
    /\ OthersIdle
    /\ DbIdle
    /\ HlIdle
    /\ IngIdle
    /\ ColIdle
    /\ CcIdle
    /\ HeadIdle
    /\ IdxIdle

ingFrame == <<adjVars, sentVars, dbVars, hlVars, colVars, ccVars, headVars, idxVars>>

\* lines 61-66: the bytes are written under UPLOAD_DIR before anything
\* else happens
SaveFile(overrides_doi) ==
    /\ ing_pc = "idle"
    /\ Len(ing_log) < MaxUploads
    /\ storage' = storage \cup {storage_path}
    /\ ing_req' = <<[path |-> storage_path, overrides_doi |-> overrides_doi,
                     extractor_json |-> <<>>]>>
    /\ ing_pc' = "extract"
    /\ UNCHANGED <<ingFrame, pdfs, ing_log>>

\* line 69: the extractor returns its JSON
ExtractorReturns(json) ==
    /\ ing_pc = "extract"
    /\ ing_req' = <<[ing_req[1] EXCEPT !.extractor_json = <<json>>]>>
    /\ ing_pc' = "persist"
    /\ UNCHANGED <<ingFrame, storage, pdfs, ing_log>>

\* line 69: the extractor raises; nothing in ingest catches it
ExtractorRaises ==
    /\ ing_pc = "extract"
    /\ ing_log' = Append(ing_log, [path |-> ing_req[1].path, outcome |-> "raised"])
    /\ ing_req' = <<>>
    /\ ing_pc' = "idle"
    /\ UNCHANGED <<ingFrame, storage, pdfs>>

\* lines 87-101 and pdf_repo.py lines 10-15: the row is committed and
\* returned
RepoCreate ==
    /\ ing_pc = "persist"
    /\ DoiIsFree(PdfValues(ing_req[1]).doi)
    /\ pdfs' = Append(pdfs, PdfValues(ing_req[1]))
    /\ ing_log' = Append(ing_log, [path |-> ing_req[1].path, outcome |-> "returned"])
    /\ ing_req' = <<>>
    /\ ing_pc' = "idle"
    /\ UNCHANGED <<ingFrame, storage>>

\* pdf_repo.py line 13: the commit violates the unique doi and raises
RepoCreateFails ==
    /\ ing_pc = "persist"
    /\ ~DoiIsFree(PdfValues(ing_req[1]).doi)
    /\ ing_log' = Append(ing_log, [path |-> ing_req[1].path, outcome |-> "raised"])
    /\ ing_req' = <<>>
    /\ ing_pc' = "idle"
    /\ UNCHANGED <<ingFrame, storage, pdfs>>

IngNext ==
    \/ \E d \in OverrideDois : SaveFile(d)
    \/ \E json \in ExtractorJsons : ExtractorReturns(json)
    \/ ExtractorRaises
    \/ RepoCreate
    \/ RepoCreateFails

SpecIngest == IngInit /\ [][IngNext]_vars

\* C21: an ingest call that raised leaves neither its file nor a row
\* naming its file behind, and every row of table pdfs carries a verdict.
C21_FailedIngestLeavesNothing ==
    /\ \A k \in 1..Len(ing_log) :
          ing_log[k].outcome = "raised" =>
             /\ ing_log[k].path \notin storage
             /\ \A j \in 1..Len(pdfs) : pdfs[j].storage_path # ing_log[k].path
    /\ \A j \in 1..Len(pdfs) : pdfs[j].cmca_result # None


\* =====================================================================
\* The loop of the adjudication stage taken in another order
\* =====================================================================

\* max_score and any_yes after the loop body has run for the candidates
\* order[1], order[2], ..., each with the answer the run recorded for it
RECURSIVE LoopIn(_)
LoopIn(order) ==
    IF order = <<>> THEN [max_score |-> 0, any_yes |-> FALSE]
    ELSE LET j == order[Len(order)]
         IN  LoopStep(LoopIn(SubSeq(order, 1, Len(order) - 1)),
                      top_queries[j], llm_responses[j].llm_response)

\* lines 123-125: verdict and confidence of the returned dict
Aggregate(acc) ==
    [cmca_result |-> IF acc.any_yes THEN "Yes" ELSE "No",
     cosine_similarity |-> Round4(acc.max_score)]

\* C22: in whatever order the selected sentences are adjudicated, with the
\* answers the run got for them, the verdict and the confidence are the
\* ones the run returned.
C22_OrderIndependent ==
    Returned =>
        \A order \in Perms(Len(llm_responses)) :
            Aggregate(LoopIn(order)) =
                [cmca_result |-> result[1].cmca_result,
                 cosine_similarity |-> result[1].cosine_similarity]

\* two sentences adjudicated, one positive and one not, of different scores
C22_Witness ==
    /\ Returned
    /\ Len(llm_responses) = 2
    /\ IsYes(llm_responses[1].llm_response) # IsYes(llm_responses[2].llm_response)
    /\ top_queries[1].best # top_queries[2].best


\* =====================================================================
\* Column ordering: detect_two_columns, sort_blocks_single_col,
\* sort_blocks_two_col (src/src/extraction/extract_sangram.py) and
\* page_blocks_sorted, guess_column_centers, merge_blocks_reading_order
\* (src/src/extraction/extract_text_and_metadata.py)
\* =====================================================================

\* the largest number of blocks on a page
MaxBlocks == 9

\* min_group=4, and gap_frac=0.18 counted in hundredths
MinGroup == 4

GapFracPct == 18

\* "if biggest_gap > 40"
GapThreshold == 40

\* the horizontal extents a block may have: two that lie close together
\* on the left of the page and one on the right
XChoices == {<<0, 20>>, <<10, 30>>, <<90, 110>>}

PageRects == {<<0, 0, 300, 400>>}

\* block k of a page: its text names it; the tops repeat and are not in
\* the order of k
MkBlock(k, x) ==
    [x0 |-> x[1], y0 |-> 10 * (((k * 5) % 11) \div 2), x1 |-> x[2],
     y1 |-> 10 * (((k * 5) % 11) \div 2) + 8, txt |-> k]

PageBlocks == UNION {[1..n -> XChoices] : n \in 0..MaxBlocks}

MkBlocks(xs) == [k \in 1..Len(xs) |-> MkBlock(k, xs[k])]

RECURSIVE SumSeq(_)
SumSeq(s) == IF s = <<>> THEN 0 ELSE Head(s) + SumSeq(Tail(s))

Abs(x) == IF x < 0 THEN -x ELSE x

\* tuples of numbers of one length, compared as Python compares tuples
RECURSIVE TupleLess(_, _)
TupleLess(a, b) ==
    IF a = <<>> THEN FALSE
    ELSE IF Head(a) # Head(b) THEN Head(a) < Head(b)
         ELSE TupleLess(Tail(a), Tail(b))

\* list.sort(key=...) on a list of [key, item]: stable
RECURSIVE KeyInsert(_, _)
KeyInsert(x, s) ==
    IF s = <<>> THEN <<x>>
    ELSE IF TupleLess(x.key, Head(s).key) THEN <<x>> \o s
         ELSE <<Head(s)>> \o KeyInsert(x, Tail(s))

RECURSIVE KeySort(_)
KeySort(s) ==
    IF s = <<>> THEN <<>>
    ELSE KeyInsert(s[Len(s)], KeySort(SubSeq(s, 1, Len(s) - 1)))

Items(s) == [j \in 1..Len(s) |-> s[j].item]

\* (b[0] + b[2]) / 2; the extents of XChoices have even sums
Center(b) == (b.x0 + b.x1) \div 2

Centers(bs) == [j \in 1..Len(bs) |-> Center(bs[j])]

\* sorted(centers)[len(centers) // 2]
Median(cs) ==
    Items(KeySort([j \in 1..Len(cs) |-> [key |-> <<cs[j]>>, item |-> cs[j]]]))[
        Len(cs) \div 2 + 1]

LeftOf(bs, med) == SelectSeq(Centers(bs), LAMBDA c : c <= med)

RightOf(bs, med) == SelectSeq(Centers(bs), LAMBDA c : c > med)

\* abs(cx_right - cx_left) / page_w >= gap_frac, for the means of two
\* non-empty lists
Separated(left, right, page_w) ==
    Abs(SumSeq(right) * Len(left) - SumSeq(left) * Len(right)) * 100
        >= GapFracPct * page_w * Len(left) * Len(right)

\* faulty variant: the lower median is taken
detect_two_columns_LowerMedian(rect, bs) ==
    IF bs = <<>> THEN [is_two |-> FALSE, med |-> <<>>]
    ELSE LET cs == Centers(bs)
             med == Items(KeySort([j \in 1..Len(cs) |->
                        [key |-> <<cs[j]>>, item |-> cs[j]]]))[(Len(cs) + 1) \div 2]
             left == LeftOf(bs, med)
             right == RightOf(bs, med)
         IN  IF Len(left) < MinGroup \/ Len(right) < MinGroup
             THEN [is_two |-> FALSE, med |-> <<med>>]
             ELSE [is_two |-> Separated(left, right, rect[3] - rect[1]),
                   med |-> <<med>>]

\* extract_sangram.py lines 54-74
detect_two_columns(rect, bs) ==
    IF bs = <<>> THEN [is_two |-> FALSE, med |-> <<>>]
    ELSE LET med == Median(Centers(bs))
             left == LeftOf(bs, med)
             right == RightOf(bs, med)
         IN  IF Len(left) < MinGroup \/ Len(right) < MinGroup
             THEN [is_two |-> FALSE, med |-> <<med>>]
             ELSE [is_two |-> Separated(left, right, rect[3] - rect[1]),
                   med |-> <<med>>]

\* lines 77-83
sort_blocks_single_col(bs) ==
    Items(KeySort([j \in 1..Len(bs) |->
                      [key |-> <<bs[j].y0, bs[j].x0>>, item |-> bs[j]]]))

\* lines 86-96
sort_blocks_two_col(bs, med) ==
    Items(KeySort([j \in 1..Len(bs) |->
                      [key |-> <<IF Center(bs[j]) <= med THEN 0 ELSE 1,
                                 bs[j].y0, bs[j].x0>>,
                       item |-> bs[j]]]))

\* extract_text_and_metadata.py lines 46-57; every block of the model has
\* text, and round(., 1) changes no whole number
page_blocks_sorted(bs) == sort_blocks_single_col(bs)

\* lines 59-75: the sorted left edges, cut at the biggest gap (the last of
\* them among equals); <<xs>> for one cluster, <<left, right>> for two
guess_column_centers(x_lefts) ==
    IF x_lefts = <<>> THEN <<>>
    ELSE LET xs == Items(KeySort([j \in 1..Len(x_lefts) |->
                           [key |-> <<x_lefts[j]>>, item |-> x_lefts[j]]]))
         IN  IF Len(xs) = 1 THEN <<xs>>
             ELSE LET gap(i) == xs[i + 1] - xs[i]
                      idx == CHOOSE i \in 1..(Len(xs) - 1) :
                                \A j \in 1..(Len(xs) - 1) :
                                    gap(j) < gap(i) \/ (gap(j) = gap(i) /\ j <= i)
                  IN  IF gap(idx) > GapThreshold
                      THEN <<SubSeq(xs, 1, idx), SubSeq(xs, idx + 1, Len(xs))>>
                      ELSE <<xs>>

\* b[0] <= (c_left + c_right) / 2.0, the centers being the means of the
\* two clusters
LeftOfSplit(b, clusters) ==
    2 * b.x0 * Len(clusters[1]) * Len(clusters[2])
        <= SumSeq(clusters[1]) * Len(clusters[2])
           + SumSeq(clusters[2]) * Len(clusters[1])

\* lines 77-100: the texts in the order they are joined
merge_blocks_reading_order(bs) ==
    LET clusters == guess_column_centers([j \in 1..Len(bs) |-> bs[j].x0])
    IN  IF Len(clusters) < 2 THEN [j \in 1..Len(bs) |-> bs[j].txt]
        ELSE LET left == SelectSeq(bs, LAMBDA b : LeftOfSplit(b, clusters))
                 right == SelectSeq(bs, LAMBDA b : ~LeftOfSplit(b, clusters))
                 txts(s) == [j \in 1..Len(s) |-> s[j].txt]
             IN  txts(sort_blocks_single_col(left))
                     \o txts(sort_blocks_single_col(right))

ColInit ==
    /\ OthersIdle
    /\ DbIdle
    /\ HlIdle
    /\ IngIdle
    /\ CcIdle
    /\ HeadIdle
    /\ IdxIdle
    /\ page_rect \in PageRects
    /\ \E xs \in PageBlocks : raw_blocks = MkBlocks(xs)
    /\ cpc = "start"
    /\ is_two = FALSE
    /\ median_x = <<>>
    /\ blocks_sorted = <<>>
    /\ merged = <<>>

colFrame == <<adjVars, sentVars, dbVars, hlVars, ingVars, ccVars, headVars,
             idxVars, page_rect, raw_blocks>>

\* extract_sangram.py line 141
DetectTwoColumns ==
    /\ cpc = "start"
    /\ is_two' = detect_two_columns(page_rect, raw_blocks).is_two
    /\ median_x' = detect_two_columns(page_rect, raw_blocks).med
    /\ cpc' = "detected"
    /\ UNCHANGED <<colFrame, blocks_sorted, merged>>

\* line 142, is_two
SortTwoCol ==
    /\ cpc = "detected"
    /\ is_two
    /\ blocks_sorted' = sort_blocks_two_col(raw_blocks, median_x[1])
    /\ cpc' = "sorted"
    /\ UNCHANGED <<colFrame, is_two, median_x, merged>>

\* line 142, not is_two
SortSingleCol ==
    /\ cpc = "detected"
    /\ ~is_two
    /\ blocks_sorted' = sort_blocks_single_col(raw_blocks)
    /\ cpc' = "sorted"
    /\ UNCHANGED <<colFrame, is_two, median_x, merged>>

\* extract_text_and_metadata.py lines 227-228
MergeReadingOrder ==
    /\ cpc = "start"
    /\ merged' = merge_blocks_reading_order(page_blocks_sorted(raw_blocks))
    /\ cpc' = "merged"
    /\ UNCHANGED <<colFrame, is_two, median_x, blocks_sorted>>

ColNext ==
    \/ DetectTwoColumns
    \/ SortTwoCol
    \/ SortSingleCol
    \/ MergeReadingOrder

SpecCols == ColInit /\ [][ColNext]_vars


\* a block's center against the midpoint between the means of the two
\* groups of detect_two_columns
LeftOfMidpoint(b) ==
    LET left == LeftOf(raw_blocks, median_x[1])
        right == RightOf(raw_blocks, median_x[1])
    IN  2 * Center(b) * Len(left) * Len(right)
            <= SumSeq(left) * Len(right) + SumSeq(right) * Len(left)

\* out lists the blocks of the page once each, the left ones first, and
\* each column from the top down
ReadingOrder(out, IsLeft(_)) ==
    /\ Len(out) = Len(raw_blocks)
    /\ {out[j] : j \in 1..Len(out)} = {raw_blocks[j] : j \in 1..Len(raw_blocks)}
    /\ \A i \in 1..Len(out) : \A j \in 1..Len(out) :
          i < j =>
             /\ ~(~IsLeft(out[i]) /\ IsLeft(out[j]))
             /\ (IsLeft(out[i]) <=> IsLeft(out[j])) => out[i].y0 <= out[j].y0

TwoColumnOrderSangram ==
    (cpc = "sorted" /\ is_two) => ReadingOrder(blocks_sorted, LeftOfMidpoint)

TwoColumnOrderMerge ==
    LET clusters == guess_column_centers([j \in 1..Len(raw_blocks) |-> raw_blocks[j].x0])
        IsLeft(b) == LeftOfSplit(b, clusters)
    IN  (cpc = "merged" /\ Len(clusters) = 2) =>
            ReadingOrder([j \in 1..Len(merged) |-> raw_blocks[merged[j]]], IsLeft)

\* C23: on a page resolved as two-column the output is a permutation of
\* the blocks in which every block on the left of the midpoint between the
\* two cluster centers comes before every block on its right, and each
\* column runs top to bottom.
C23_TwoColumnReadingOrder ==
    /\ TwoColumnOrderSangram
    /\ TwoColumnOrderMerge


\* C29: a page of fewer than 2 * min_group + 1 = 9 blocks is never
\* reported as two-column: the group right of the upper median holds at
\* most n - n div 2 - 1 blocks, and the page is read in the single-column
\* order.
C29_FewBlocksSingleColumn ==
    (cpc \in {"detected", "sorted"} /\ Len(raw_blocks) < 2 * MinGroup + 1) =>
        /\ ~is_two
        /\ median_x # <<>> =>
              Len(RightOf(raw_blocks, median_x[1]))
                  <= Len(raw_blocks) - Len(raw_blocks) \div 2 - 1
        /\ cpc = "sorted" => blocks_sorted = sort_blocks_single_col(raw_blocks)

\* a page of eight blocks, four far left and four far right, has been put
\* in reading order
C29_Witness ==
    /\ cpc = "sorted"
    /\ Len(raw_blocks) = 2 * MinGroup
    /\ Cardinality({j \in 1..Len(raw_blocks) : raw_blocks[j].x0 = 0}) = MinGroup
    /\ Cardinality({j \in 1..Len(raw_blocks) : raw_blocks[j].x0 = 90}) = MinGroup


\* =====================================================================
\* Concurrent callers of the vector store: two add_with_embeddings calls
\* and a query_by_vector call on one collection (src/pgvector_db.py).
\* Every call opens a connection of its own (_get_connection); psycopg2
\* runs it as one READ COMMITTED transaction, which add_with_embeddings
\* commits at line 159.
\* =====================================================================
Writers == {"w1", "w2"}

\* what each writer sends: its documents, embeddings and metadatas are
\* its own, so a row tells which writer every field came from
WriterDocuments == [w1 |-> Some(<<"d1", "d2">>), w2 |-> Some(<<"d3", "d4">>)]

WriterEmbeddings ==
    [w1 |-> Some(<< <<1, 0>>, <<0, 1>> >>), w2 |-> Some(<< <<1, 1>>, <<2, 1>> >>)]

WriterMetadatas == [w1 |-> Some(<<MetaTest, EmptyDict>>), w2 |-> NoList]

WriterIds == {<<"i1">>, <<"i1", "i2">>, <<"i2", "i1">>, <<"i1", "i1">>}

WriterCall(w, ids) ==
    [ids |-> Some(ids), documents |-> WriterDocuments[w],
     embeddings |-> WriterEmbeddings[w], metadatas |-> WriterMetadatas[w]]

NoTx == [pc |-> "idle", data |-> <<>>, k |-> 0]

\* the ids whose rows the transaction of w has written and keeps locked
\* until it ends
LockedBy(w) ==
    IF txs[w].pc = "running"
    THEN {txs[w].data[j].id : j \in 1..txs[w].k}
    ELSE {}

\* w has a statement to execute and the row it names is locked by another
\* transaction
Blocked(w) ==
    /\ txs[w].pc = "running"
    /\ txs[w].k < Len(txs[w].data)
    /\ \E v \in Writers \ {w} : txs[w].data[txs[w].k + 1].id \in LockedBy(v)

ConcInit ==
    /\ OthersIdle
    /\ HlIdle
    /\ IngIdle
    /\ ColIdle
    /\ HeadIdle
    /\ IdxIdle
    /\ db_exists = TRUE
    /\ db_rows = <<>>
    /\ last_add = [i \in ItemIds |-> NeverAdded]
    /\ db_out = NoCall
    /\ txs = [w \in Writers |-> NoTx]
    /\ seen = <<>>

concFrame == <<adjVars, sentVars, hlVars, ingVars, colVars, headVars, idxVars,
              db_exists, db_out>>

\* lines 139-148: the connection is there and the batch is prepared
BeginAdd(w, ids) ==
    /\ txs[w].pc = "idle"
    /\ txs' = [txs EXCEPT ![w] = [pc |-> "running",
                                  data |-> BatchData(WriterCall(w, ids)),
                                  k |-> 0]]
    /\ UNCHANGED <<concFrame, db_rows, last_add, seen>>

\* lines 151-158, one statement of executemany: it waits while another
\* transaction holds the row, then writes the row in its own transaction
ExecuteOne(w) ==
    /\ txs[w].pc = "running"
    /\ txs[w].k < Len(txs[w].data)
    /\ ~Blocked(w)
    /\ txs' = [txs EXCEPT ![w].k = @ + 1]
    /\ UNCHANGED <<concFrame, db_rows, last_add, seen>>

\* line 159: conn.commit() makes the rows of the batch visible at once
CommitAdd(w) ==
    /\ txs[w].pc = "running"
    /\ txs[w].k = Len(txs[w].data)
    /\ db_rows' = ExecuteMany(db_rows, txs[w].data)
    /\ last_add' = [i \in ItemIds |-> LastNamed(txs[w].data, i, last_add[i])]
    /\ txs' = [txs EXCEPT ![w].pc = "committed"]
    /\ UNCHANGED <<concFrame, seen>>

\* two transactions wait for each other's rows: the server ends one of
\* them with an error, executemany raises and the connection's context
\* manager rolls back
DeadlockAbort(w) ==
    /\ Blocked(w)
    /\ \A v \in Writers \ {w} : Blocked(v)
    /\ txs' = [txs EXCEPT ![w].pc = "aborted"]
    /\ UNCHANGED <<concFrame, db_rows, last_add, seen>>

\* lines 200-206: the reader's SELECT fetches the committed rows
Select ==
    /\ seen' = db_rows
    /\ UNCHANGED <<concFrame, db_rows, last_add, txs>>

ConcNext ==
    \/ \E w \in Writers : \E ids \in WriterIds : BeginAdd(w, ids)
    \/ \E w \in Writers : ExecuteOne(w)
    \/ \E w \in Writers : CommitAdd(w)
    \/ \E w \in Writers : DeadlockAbort(w)
    \/ Select

SpecConc == ConcInit /\ [][ConcNext]_vars

\* the writers whose batch holds the row, field for field
WritersOf(row) ==
    {w \in Writers : \E j \in 1..Len(txs[w].data) : txs[w].data[j] = row}

\* C24: with two writers and a reader at work on one collection, every
\* stored row is, in document, metadata and embedding, the tuple of one
\* writer, namely of the last write to its id, and every row the reader
\* fetches is such a tuple of a writer that has committed.
C24_LastWriteWinsWhole ==
    /\ \A k \in 1..Len(db_rows) :
          /\ Cardinality(WritersOf(db_rows[k])) = 1
          /\ last_add[db_rows[k].id] = Some(db_rows[k])
    /\ \A k \in 1..Len(seen) :
          /\ Cardinality(WritersOf(seen[k])) = 1
          /\ \A w \in WritersOf(seen[k]) : txs[w].pc = "committed"

\* both writers have committed a tuple for i1, and the reader holds the
\* row of the first while the table holds the row of the second
C24_Witness ==
    /\ \A w \in Writers : txs[w].pc = "committed"
    /\ \E j \in 1..Len(seen) : \E k \in 1..Len(db_rows) :
          /\ seen[j].id = "i1"
          /\ db_rows[k].id = "i1"
          /\ WritersOf(seen[j]) # WritersOf(db_rows[k])


\* =====================================================================
\* Heading detection: detect_headings (src/src/extraction/layout.py)
\* =====================================================================

\* the most lines a page has
MaxHeadLines == 2

\* len(clean) > 120, len(clean.split()) <= 10, abs(...) < 2, and the
\* average font size of a page without spans
MaxTitleLen == 120

MaxTitleWords == 10

DedupGap == 2

DefaultFontSize == 10

\* the lines a page may hold, each of one span: a bold title, a bold
\* title beside it at the same height (the other column), the first title
\* extracted again one unit lower, body text, a title in a larger font,
\* and a blank line
HeadLinePool ==
    { [text |-> <<"A", "i", "m">>, size |-> 10, font |-> "Bold", y0 |-> 10, y1 |-> 20],
      [text |-> <<"F", "I", "T">>, size |-> 10, font |-> "Bold", y0 |-> 10, y1 |-> 20],
      [text |-> <<"A", "i", "m">>, size |-> 10, font |-> "Bold", y0 |-> 11, y1 |-> 21],
      [text |-> <<"t", "h", "e", " ", "a">>, size |-> 10, font |-> "Regular",
       y0 |-> 30, y1 |-> 40],
      [text |-> <<"A", "i", "m", " ">>, size |-> 14, font |-> "Regular",
       y0 |-> 30, y1 |-> 40],
      [text |-> <<" ">>, size |-> 10, font |-> "Bold", y0 |-> 50, y1 |-> 60] }

HeadPages == UNION {[1..n -> HeadLinePool] : n \in 0..MaxHeadLines}

\* lines 14-22: the comparison size >= avg_font * 1.2 for the page's
\* average span size
IsBig(size, lines) ==
    IF lines = <<>> THEN 10 * size >= 12 * DefaultFontSize
    ELSE 10 * size * Len(lines) >= 12 * SumSeq([j \in 1..Len(lines) |-> lines[j].size])

\* str.isupper(): a cased character, and none of them lower case
IsUpperText(s) ==
    /\ \E j \in 1..Len(s) : s[j] \in Range(UpperChars)
    /\ \A j \in 1..Len(s) : s[j] \notin Range(LowerChars)

\* ^[A-Z][A-Za-z0-9 ,-:;()]+$ and the two dashes
IsTitleText(s) ==
    /\ Len(s) >= 2
    /\ s[1] \in Range(UpperChars)
    /\ \A j \in 2..Len(s) :
          s[j] \in Range(UpperChars) \cup Range(LowerChars) \cup Range(DigitChars)
                   \cup {" ", ",", "endash", "emdash", "-", ":", ";", "(", ")"}

\* len(clean.split())
WordCount(s) ==
    Cardinality({j \in 1..Len(s) : ~IsSpace(s[j]) /\ (j = 1 \/ IsSpace(s[j - 1]))})

\* lines 32-44
is_heading(text, line, lines) ==
    LET clean == StripText(NFKC(text))
        alnum == Cardinality({j \in 1..Len(clean) :
                     clean[j] \in Range(UpperChars) \cup Range(LowerChars)})
        nospace == Cardinality({j \in 1..Len(clean) : clean[j] # " "})
        big == IsBig(line.size, lines)
        boldish == line.font \in {"Bold", "Semibold"}
        caps_or_title == IsUpperText(clean) \/ IsTitleText(clean)
        shortish == WordCount(clean) <= MaxTitleWords
    IN  IF clean = <<>> \/ Len(clean) > MaxTitleLen THEN FALSE
        ELSE IF 10 * alnum < 6 * nospace THEN FALSE
        ELSE (big \/ boldish) /\ caps_or_title /\ shortish

\* lines 49-60: the headings of page pg (0-based) in line order
RECURSIVE PageHeads(_, _, _)
PageHeads(pg, lines, k) ==
    IF k > Len(lines) THEN <<>>
    ELSE LET text == StripText(lines[k].text)
             rest == PageHeads(pg, lines, k + 1)
         IN  IF text # <<>> /\ is_heading(text, lines[k], lines)
             THEN <<[title |-> text, pno |-> pg, y0 |-> lines[k].y0,
                     y1 |-> lines[k].y1]>> \o rest
             ELSE rest

\* lines 64-69
RECURSIVE Dedup(_)
Dedup(hs) ==
    IF hs = <<>> THEN <<>>
    ELSE LET dedup == Dedup(SubSeq(hs, 1, Len(hs) - 1))
             h == hs[Len(hs)]
         IN  IF /\ dedup # <<>>
                /\ h.title = dedup[Len(dedup)].title
                /\ h.pno = dedup[Len(dedup)].pno
                /\ Abs(h.y0 - dedup[Len(dedup)].y0) < DedupGap
             THEN dedup
             ELSE Append(dedup, h)

\* lines 46-70
detect_headings(pages) ==
    LET found == Concat([p \in 1..Len(pages) |-> PageHeads(p - 1, pages[p], 1)])
        sorted == Items(KeySort([j \in 1..Len(found) |->
                      [key |-> <<found[j].pno, found[j].y0>>, item |-> found[j]]]))
    IN  Dedup(sorted)

HeadInit ==
    /\ OthersIdle
    /\ DbIdle
    /\ HlIdle
    /\ IngIdle
    /\ ColIdle
    /\ CcIdle
    /\ IdxIdle
    /\ blocks_by_page \in [1..2 -> HeadPages]
    /\ heads = <<>>

\* cli.py line 35
DetectHeadings ==
    /\ heads = <<>>
    /\ heads' = <<detect_headings(blocks_by_page)>>
    /\ UNCHANGED <<adjVars, sentVars, dbVars, hlVars, ingVars, colVars, ccVars,
                   idxVars, blocks_by_page>>

HeadNext == DetectHeadings

SpecHead == HeadInit /\ [][HeadNext]_vars

\* C25: the headings returned are in the order of (page, y0), and no two
\* of one page have vertical spans that overlap.
C25_OrderedAndDisjoint ==
    heads # <<>> =>
        LET hs == heads[1]
        IN  \A i \in 1..Len(hs) : \A j \in 1..Len(hs) :
               i < j =>
                  /\ hs[i].pno < hs[j].pno
                        \/ (hs[i].pno = hs[j].pno /\ hs[i].y0 <= hs[j].y0)
                  /\ hs[i].pno = hs[j].pno =>
                        (hs[i].y1 < hs[j].y0 \/ hs[j].y1 < hs[i].y0)


\* C26: whenever the adjudication stage returns the verdict "Yes", the
\* positive filter of the annotation stage selects at least one of the
\* verification records of that run.
C26_VerdictYesHasHighlight ==
    (Returned /\ result[1].cmca_result = "Yes") => YesIds(llm_responses) # <<>>


\* C27: every verification record carries the id and page of an extractor
\* sentence whose text is the adjudicated text, and every sentence whose
\* text was adjudicated has a record with its own id and page.
C27_RecordsAttributed ==
    Returned =>
        /\ \A k \in 1..Len(llm_responses) :
              \E j \in 1..Len(raw_sentences) :
                 /\ raw_sentences[j].text = llm_responses[k].query_text
                 /\ raw_sentences[j].id = llm_responses[k].sentence_id
                 /\ raw_sentences[j].page = llm_responses[k].page
        /\ \A j \in 1..Len(raw_sentences) :
              (\E k \in 1..Len(llm_responses) :
                  llm_responses[k].query_text = raw_sentences[j].text)
              => \E k \in 1..Len(llm_responses) :
                    /\ llm_responses[k].sentence_id = raw_sentences[j].id
                    /\ llm_responses[k].page = raw_sentences[j].page


\* the line boxes of the page a record lies on
LineBoxesOf(r) == LineBoxes(doc[r.page])

\* C28: the bounding box of every emitted record is the union of the boxes
\* of one or more lines of its page, never the (0, 0, 0, 0) that
\* _bbox_for_span gives when no line overlaps the span.
C28_BboxIsUnionOfLines ==
    \A i \in 1..Len(Generated) :
        LET r == Generated[i]
            lb == LineBoxesOf(r)
        IN  /\ r.bbox # <<0, 0, 0, 0>>
            /\ \E hit \in SUBSET (1..Len(lb)) :
                  /\ hit # {}
                  /\ \A k \in hit : r.page_char_start < lb[k].le
                                    /\ lb[k].ls < r.page_char_end
                  /\ r.bbox = << MinOf({lb[k].x0 : k \in hit}),
                                 MinOf({lb[k].y0 : k \in hit}),
                                 MaxOf({lb[k].x1 : k \in hit}),
                                 MaxOf({lb[k].y1 : k \in hit}) >>

\* a record has been written whose span is only a part of a line: it
\* begins after the line's first character
C28_Witness ==
    \E i \in 1..Len(written) :
        \E k \in 1..Len(LineBoxesOf(written[i])) :
            /\ LineBoxesOf(written[i])[k].ls < written[i].page_char_start
            /\ written[i].page_char_end <= LineBoxesOf(written[i])[k].le + 1


(* ------------------------------------------------------------------------ *)
(* The sentence index: src/src/extraction/sqlite_index.py                   *)
(*                                                                          *)
(* Table sentences has id as its PRIMARY KEY and hash16 UNIQUE (lines 12,   *)
(* 20). INSERT OR REPLACE is SQLite's REPLACE conflict resolution: before   *)
(* the new row goes in, every row that would violate a uniqueness           *)
(* constraint, the primary key or any UNIQUE column, is deleted.            *)
(* ------------------------------------------------------------------------ *)

\* the longest batch add_batch is given
MaxBatch == 2

\* the texts of the records: the first two differ in case only
IndexTexts == { <<"A", "b", ".">>, <<"a", "b", ".">>, <<"C", "d", ".">> }

\* a record as iter_page_sentences builds it (sentences.py lines 113-124),
\* with the fields add_batch reads apart from the offsets and the box
IndexRecord(page_no, local_idx, text) ==
    [id |-> SentId(page_no, local_idx),
     page |-> page_no,
     text |-> text,
     hash16 |-> hash16(norm_for_hash(text))]

IndexRecords ==
    { IndexRecord(p, i, t) : p \in 1..2, i \in 1..2, t \in IndexTexts }

\* the batches: one to MaxBatch records with pairwise distinct ids
RECURSIVE BatchesOf(_)
BatchesOf(n) ==
    IF n = 0 THEN { <<>> }
    ELSE UNION { { Append(b, r) :
                      r \in { x \in IndexRecords :
                                \A j \in 1..Len(b) : b[j].id # x.id } } :
                 b \in BatchesOf(n - 1) }

Batches == UNION { BatchesOf(n) : n \in 1..MaxBatch }

\* the rowid SQLite gives a new row: one more than the largest in the table
NextRowid(rows) ==
    IF rows = <<>> THEN 1
    ELSE MaxOf({rows[j].rowid : j \in 1..Len(rows)}) + 1

\* faulty variant: only a row with the same id is replaced
InsertOrReplace_ById(rows, r) ==
    SelectSeq(rows, LAMBDA x : x.id # r.id)
        \o << [rowid |-> NextRowid(rows), id |-> r.id, page |-> r.page,
               text |-> r.text, hash16 |-> r.hash16] >>

\* _INSERT, line 27, under the schema of lines 11-21
InsertOrReplace(rows, r) ==
    SelectSeq(rows, LAMBDA x : x.id # r.id /\ x.hash16 # r.hash16)
        \o << [rowid |-> NextRowid(rows), id |-> r.id, page |-> r.page,
               text |-> r.text, hash16 |-> r.hash16] >>

IdxInit ==
    /\ OthersIdle
    /\ DbIdle
    /\ HlIdle
    /\ IngIdle
    /\ ColIdle
    /\ CcIdle
    /\ HeadIdle
    /\ IdxIdle

idxFrame == <<adjVars, sentVars, dbVars, hlVars, ingVars, colVars, ccVars, headVars>>

\* SentIndex.begin, lines 38-41
begin ==
    /\ idx_batch = <<>> \/ idx_k = Len(idx_batch)
    /\ ~idx_tx
    /\ idx_tx' = TRUE
    /\ UNCHANGED <<idx_rows, idx_fts, idx_disk, idx_batch, idx_k, idxFrame>>

\* SentIndex.add_batch is called, line 52
AddBatch(batch) ==
    /\ idx_batch = <<>>
    /\ idx_batch' = batch
    /\ UNCHANGED <<idx_tx, idx_rows, idx_fts, idx_disk, idx_k, idxFrame>>

\* one turn of the loop of add_batch, lines 54-61
InsertOne ==
    /\ idx_k < Len(idx_batch)
    /\ LET r == idx_batch[idx_k + 1]
       IN  /\ idx_rows' = InsertOrReplace(idx_rows, r)
           /\ idx_fts' = Append(idx_fts, <<NextRowid(idx_rows), r.text>>)
    /\ idx_k' = idx_k + 1
    /\ UNCHANGED <<idx_tx, idx_disk, idx_batch, idxFrame>>

\* SentIndex.commit, lines 43-46: nothing happens unless begin was called
commit ==
    /\ idx_batch = <<>> \/ idx_k = Len(idx_batch)
    /\ idx_tx
    /\ idx_disk' = idx_rows
    /\ idx_tx' = FALSE
    /\ UNCHANGED <<idx_rows, idx_fts, idx_batch, idx_k, idxFrame>>

IdxNext ==
    \/ begin
    \/ \E batch \in Batches : AddBatch(batch)
    \/ InsertOne
    \/ commit

SpecIndex == IdxInit /\ [][IdxNext]_vars

\* add_batch has returned
BatchAdded == idx_batch # <<>> /\ idx_k = Len(idx_batch)

\* C30: when add_batch has returned, every id of the batch has a row in
\* table sentences, also when two records of the batch have the same hash16.
C30_EveryIdHasRow ==
    BatchAdded =>
        \A j \in 1..Len(idx_batch) :
            \E n \in 1..Len(idx_rows) : idx_rows[n].id = idx_batch[j].id

\* what does hold: every hash16 of the batch has a row, and the last record
\* of the batch is in the table
C30_EveryHashHasRow ==
    BatchAdded =>
        /\ \A j \in 1..Len(idx_batch) :
              \E n \in 1..Len(idx_rows) : idx_rows[n].hash16 = idx_batch[j].hash16
        /\ \E n \in 1..Len(idx_rows) : idx_rows[n].id = idx_batch[Len(idx_batch)].id

=============================================================================
